---- MODULE Spec2Model ----
(***************************************************************************)
(* Live-captions engine of LiveCaptionsOnSmartGlasses: the transcript       *)
(* processor (TranscriptProcessor.ts), the Chinese word-boundary helper     *)
(* and the session handling of LiveCaptionsApp (index.ts).                  *)
(*                                                                         *)
(* Strings are sequences of one-character strings.  Two specifications:    *)
(*   SpecTP  one TranscriptProcessor object driven through its public API, *)
(*   Spec    the application: sessions, settings, timers and the sink.     *)
(***************************************************************************)
EXTENDS Integers, Sequences, FiniteSets, TLC

\* ------------------------------------------------------------------------
\* Characters and strings
\* ------------------------------------------------------------------------
SP == " "
NL == "\n"
\* Latin letters, Han characters (XY is a dictionary word), punctuation
Latin == {"a", "b"}
Han == {"X", "Y"}
\* the ideographic full stop, written with an ASCII character
IdeographicStop == "@"
Punct == {".", ",", IdeographicStop}
\* whitespace recognised by String.prototype.trim
WhiteSpace == {SP, NL}

\* the null transcript text (a value that is no string of characters)
Null == <<"NULL">>

Min(a, b) == IF a <= b THEN a ELSE b

\* String.prototype.substring(from) with 0-based from
SubstringFrom(s, from) == SubSeq(s, from + 1, Len(s))
\* String.prototype.substring(0, to)
SubstringTo(s, to) == SubSeq(s, 1, to)

RECURSIVE TrimStart(_)
TrimStart(s) ==
  IF s # <<>> /\ Head(s) \in WhiteSpace THEN TrimStart(Tail(s)) ELSE s

RECURSIVE TrimEnd(_)
TrimEnd(s) ==
  IF s # <<>> /\ s[Len(s)] \in WhiteSpace
  THEN TrimEnd(SubSeq(s, 1, Len(s) - 1)) ELSE s

\* String.prototype.trim
Trim(s) == TrimEnd(TrimStart(s))

\* Array.prototype.join
RECURSIVE Join(_, _)
Join(strs, sep) ==
  IF strs = <<>> THEN <<>>
  ELSE IF Len(strs) = 1 THEN strs[1]
  ELSE strs[1] \o sep \o Join(Tail(strs), sep)

\* number of newline-separated lines of a string (split("\n").length)
LineCount(s) == Cardinality({i \in 1..Len(s) : s[i] = NL}) + 1

\* ------------------------------------------------------------------------
\* ChineseUtils (languageLocale.ts, second half)
\* ------------------------------------------------------------------------
\* /[一-龥]/.test(text)
IsChineseText(text) == \E i \in 1..Len(text) : text[i] \in Han

RECURSIVE LatinRun(_)
LatinRun(s) == IF s # <<>> /\ Head(s) \in Latin THEN 1 + LatinRun(Tail(s)) ELSE 0

\* jieba.cut: the lengths of the words of the dictionary segmentation.
\* A run of Latin letters is one word, the Han pair XY is one word, every
\* other character is a word of its own.
RECURSIVE JiebaCut(_)
JiebaCut(text) ==
  IF text = <<>> THEN <<>>
  ELSE LET n == IF Head(text) \in Latin THEN LatinRun(text)
                ELSE IF Len(text) >= 2 /\ text[1] = "X" /\ text[2] = "Y" THEN 2
                ELSE 1
       IN <<n>> \o JiebaCut(SubstringFrom(text, n))

RECURSIVE BoundaryLoop(_, _, _)
BoundaryLoop(words, currentLength, position) ==
  IF words = <<>> THEN position
  ELSE IF currentLength + Head(words) > position THEN currentLength
  ELSE BoundaryLoop(Tail(words), currentLength + Head(words), position)

findChineseWordBoundary(text, position) ==
  IF ~IsChineseText(text) THEN position
  ELSE BoundaryLoop(JiebaCut(text), 0, position)

\* ------------------------------------------------------------------------
\* TranscriptProcessor
\* ------------------------------------------------------------------------
\* the scan for the last space at or before maxLineLength (0-based charAt)
RECURSIVE LastSpace(_, _)
LastSpace(text, splitIndex) ==
  IF splitIndex > 0 /\ text[splitIndex + 1] # SP
  THEN LastSpace(text, splitIndex - 1) ELSE splitIndex

\* a split index with no forced split when the scan finds no space
SplitIndex_NoForcedSplit(text, maxLineLength, isChinese) ==
  IF isChinese THEN findChineseWordBoundary(text, maxLineLength)
  ELSE LET i == LastSpace(text, maxLineLength)
       IN IF i = 0 THEN Len(text) ELSE i

\* a split index that never looks for a space
SplitIndex_AlwaysForced(text, maxLineLength, isChinese) ==
  IF isChinese THEN findChineseWordBoundary(text, maxLineLength) ELSE maxLineLength

SplitIndex(text, maxLineLength, isChinese) ==
  IF isChinese THEN findChineseWordBoundary(text, maxLineLength)
  ELSE LET i == LastSpace(text, maxLineLength)
       IN IF i = 0 THEN maxLineLength ELSE i

\* wrapText: [ok, lines]; ok = FALSE when the loop never ends (an iteration
\* that leaves the remaining text unchanged repeats forever)
RECURSIVE wrapText(_, _, _)
wrapText(text, maxLineLength, isChinese) ==
  IF text = <<>> THEN [ok |-> TRUE, lines |-> <<>>]
  ELSE IF Len(text) <= maxLineLength THEN [ok |-> TRUE, lines |-> <<text>>]
  ELSE LET splitIndex == SplitIndex(text, maxLineLength, isChinese)
           chunk == Trim(SubstringTo(text, splitIndex))
           rest == Trim(SubstringFrom(text, splitIndex))
       IN IF rest = text THEN [ok |-> FALSE, lines |-> <<chunk>>]
          ELSE LET r == wrapText(rest, maxLineLength, isChinese)
               IN [ok |-> r.ok, lines |-> <<chunk>> \o r.lines]

\* "Ensure we have exactly maxLines": push "" while shorter, shift while longer
RECURSIVE PadLines(_, _)
PadLines(ls, maxLines) ==
  IF Len(ls) < maxLines THEN PadLines(Append(ls, <<>>), maxLines) ELSE ls

\* a variant that drops the overflow from the back
ShiftLines_FromBack(ls, maxLines) == SubSeq(ls, 1, Min(Len(ls), maxLines))

RECURSIVE ShiftLines(_, _)
ShiftLines(ls, maxLines) ==
  IF Len(ls) > maxLines THEN ShiftLines(Tail(ls), maxLines) ELSE ls

\* a variant that pads but never drops the overflow
EnsureMaxLines_PadOnly(ls, maxLines) == PadLines(ls, maxLines)

EnsureMaxLines(ls, maxLines) == ShiftLines(PadLines(ls, maxLines), maxLines)

\* a constructor that ignores its isChinese argument
NewProcessor_NeverChinese(maxCharsPerLine, maxLines, maxFinalTranscripts, isChinese) ==
  [maxCharsPerLine |-> maxCharsPerLine,
   maxLines |-> maxLines,
   lines |-> <<>>,
   partialText |-> <<>>,
   finalTranscriptHistory |-> <<>>,
   maxFinalTranscripts |-> maxFinalTranscripts,
   isChinese |-> FALSE,
   currentDisplayLines |-> <<>>]

\* constructor (lastUserTranscript, which only getLastUserTranscript reads and
\* nothing calls, is left out)
NewProcessor(maxCharsPerLine, maxLines, maxFinalTranscripts, isChinese) ==
  [maxCharsPerLine |-> maxCharsPerLine,
   maxLines |-> maxLines,
   lines |-> <<>>,
   partialText |-> <<>>,
   finalTranscriptHistory |-> <<>>,
   maxFinalTranscripts |-> maxFinalTranscripts,
   isChinese |-> isChinese,
   currentDisplayLines |-> <<>>]

\* a variant that evicts the newest entry instead of the oldest
ShiftHistory_DropNewest(h, maxFinalTranscripts) ==
  SubSeq(h, 1, Min(Len(h), maxFinalTranscripts))

RECURSIVE ShiftHistory(_, _)
ShiftHistory(h, maxFinalTranscripts) ==
  IF Len(h) > maxFinalTranscripts THEN ShiftHistory(Tail(h), maxFinalTranscripts)
  ELSE h

\* a variant that also stores a blank transcript
addToTranscriptHistory_KeepBlank(p, transcript) ==
  [p EXCEPT !.finalTranscriptHistory =
     ShiftHistory(Append(@, transcript), p.maxFinalTranscripts)]

addToTranscriptHistory(p, transcript) ==
  IF Trim(transcript) = <<>> THEN p
  ELSE [p EXCEPT !.finalTranscriptHistory =
          ShiftHistory(Append(@, transcript), p.maxFinalTranscripts)]

getCombinedTranscriptHistory(p) == Join(p.finalTranscriptHistory, <<SP>>)

\* processString: [proc, ret, ok, wrapped]; ok = FALSE when wrapText never
\* returns (the assignments made before the call to wrapText are kept)
\* a variant that trims null like any other text
TrimmedText_NullAsText(text) == Trim(text)
\* newText === null ? "" : newText.trim()
TrimmedText(text) == IF text = Null THEN <<>> ELSE Trim(text)

\* a variant whose partial path adds the new text to the partial it holds
processString_KeepPartial(p, text, isFinal) ==
  LET newText == IF isFinal THEN TrimmedText(text)
                 ELSE Trim(p.partialText \o <<SP>> \o TrimmedText(text))
      p1 == IF ~isFinal
            THEN [p EXCEPT !.partialText = newText]
            ELSE addToTranscriptHistory([p EXCEPT !.partialText = <<>>], newText)
      combinedText == IF ~isFinal
                      THEN getCombinedTranscriptHistory(p1) \o <<SP>> \o newText
                      ELSE getCombinedTranscriptHistory(p1)
      w == wrapText(combinedText, p1.maxCharsPerLine, p1.isChinese)
      display == EnsureMaxLines(w.lines, p1.maxLines)
  IN IF w.ok
     THEN [proc |-> [p1 EXCEPT !.currentDisplayLines = display],
           ret |-> Join(display, <<NL>>), ok |-> TRUE, wrapped |-> w.lines]
     ELSE [proc |-> p1, ret |-> <<>>, ok |-> FALSE, wrapped |-> w.lines]

\* a variant whose final path keeps the partial text and shows it
processString_FinalKeepsPartial(p, text, isFinal) ==
  LET newText == TrimmedText(text)
      p1 == IF ~isFinal
            THEN [p EXCEPT !.partialText = newText]
            ELSE addToTranscriptHistory(p, newText)
      combinedText == IF ~isFinal
                      THEN getCombinedTranscriptHistory(p1) \o <<SP>> \o newText
                      ELSE getCombinedTranscriptHistory(p1) \o <<SP>> \o p1.partialText
      w == wrapText(combinedText, p1.maxCharsPerLine, p1.isChinese)
      display == EnsureMaxLines(w.lines, p1.maxLines)
  IN IF w.ok
     THEN [proc |-> [p1 EXCEPT !.currentDisplayLines = display],
           ret |-> Join(display, <<NL>>), ok |-> TRUE, wrapped |-> w.lines]
     ELSE [proc |-> p1, ret |-> <<>>, ok |-> FALSE, wrapped |-> w.lines]

processString(p, text, isFinal) ==
  LET newText == TrimmedText(text)
      p1 == IF ~isFinal
            THEN [p EXCEPT !.partialText = newText]
            ELSE addToTranscriptHistory([p EXCEPT !.partialText = <<>>], newText)
      combinedText == IF ~isFinal
                      THEN getCombinedTranscriptHistory(p1) \o <<SP>> \o newText
                      ELSE getCombinedTranscriptHistory(p1)
      w == wrapText(combinedText, p1.maxCharsPerLine, p1.isChinese)
      display == EnsureMaxLines(w.lines, p1.maxLines)
  IN IF w.ok
     THEN [proc |-> [p1 EXCEPT !.currentDisplayLines = display],
           ret |-> Join(display, <<NL>>), ok |-> TRUE, wrapped |-> w.lines]
     ELSE [proc |-> p1, ret |-> <<>>, ok |-> FALSE, wrapped |-> w.lines]

\* a clear that keeps the history
clear_KeepHistory(p) ==
  [p EXCEPT !.lines = <<>>, !.partialText = <<>>]

\* clear()
clear(p) ==
  [p EXCEPT !.lines = <<>>, !.partialText = <<>>, !.finalTranscriptHistory = <<>>]

\* ------------------------------------------------------------------------
\* Bounds and inputs
\* ------------------------------------------------------------------------
MaxWidth == 3
MaxLinesTP == 2
MaxCap == 2
MaxAppend == 3

\* transcript texts handed to one processor
TPTexts ==
  {Null, <<>>, <<SP>>,
   <<SP, "a", "b", SP>>,
   <<"a", "b", "a", "b", "a">>,
   <<"X", "Y", "X">>}

\* ------------------------------------------------------------------------
\* State
\* ------------------------------------------------------------------------
VARIABLES
  tp,          \* the TranscriptProcessor object under test (SpecTP)
  tpCall,      \* the last call made on tp and what it returned
  tpAppended,  \* the non-blank final texts given to tp since it was last emptied
  sessions     \* HandymanVoiceAssistant: Map sessionId -> session state

tpVars == <<tp, tpCall, tpAppended, sessions>>

NoCall == [op |-> "none", text |-> <<>>, isFinal |-> FALSE, ok |-> TRUE,
           ret |-> <<>>, wrapped |-> <<>>]

\* ------------------------------------------------------------------------
\* LiveCaptionsApp (index.ts): constants, inputs, state
\* ------------------------------------------------------------------------
MAX_FINAL_TRANSCRIPTS == 30
debounceDelay == 400
InactivityDelay == 40000
DefaultMaxCharsPerLine == 30
DefaultMaxLines == 3

\* bounds of the application model
StartTime == 1000
MaxInputs == 4
MaxTicks == 2

Sessions == {"s1", "s2"}
\* the user id each session id is started with
UserOf(sid) == "u1"
\* the clock moves in steps of this size, or straight to the next timer
TimeStep == {200}

RECURSIVE Rep(_, _)
Rep(str, n) == IF n = 0 THEN <<>> ELSE str \o Rep(str, n - 1)

\* transcript texts of transcription events: a short one and one of 23
\* characters (longer than the narrowest Latin width, 21)
ShortText == <<"a", SP, "b">>
LongText == Rep(<<"a", "b", SP>>, 7) \o <<"a", "b">>
\* a Han text of 15 characters (longer than the default Hanzi width, 14)
\* whose segmentation has no word edge at 14
HanText == <<"Y">> \o Rep(<<"X", "Y">>, 7)
Texts == {ShortText, LongText}

\* the names of the line widths, as the settings store spells them
VeryNarrowName == <<"v", "e", "r", "y", SP, "n", "a", "r", "r", "o", "w">>
NarrowName == <<"n", "a", "r", "r", "o", "w">>
MediumName == <<"m", "e", "d", "i", "u", "m">>
WideName == <<"w", "i", "d", "e">>
VeryWideName == <<"v", "e", "r", "y", SP, "w", "i", "d", "e">>
\* a string that names no width
HugeName == <<"h", "u", "g", "e">>

\* a value of the settings store: absent, a number, NaN or a string (the
\* string of a line_width value is a sequence of characters)
Absent == [k |-> "absent", n |-> 0, s |-> <<>>]
Num(n) == [k |-> "num", n |-> n, s |-> <<>>]
Str(s) == [k |-> "str", n |-> 0, s |-> s]
NaN == [k |-> "nan", n |-> 0, s |-> <<>>]

SettingKeys == {"transcribe_language", "line_width", "number_of_lines"}
SettingValues(key) ==
  CASE key = "transcribe_language" -> {Str("English"), Str("Chinese (Hanzi)")}
    [] key = "line_width" -> {Absent, Str(VeryNarrowName)}
    [] key = "number_of_lines" -> {Absent, Num(1)}

InitialSettings ==
  [transcribe_language |-> Str("English"), line_width |-> Absent,
   number_of_lines |-> Absent]

Locales == {"en-US", "zh-CN"}

NoTimer == 0

VARIABLES
  now,                       \* Date.now()
  userTranscriptProcessors,  \* Map userId -> TranscriptProcessor
  userActiveLanguages,       \* Map userId -> language name
  sessionDebouncers,         \* Map sessionId -> TranscriptDebouncer
  inactivityTimers,          \* Map sessionId -> InactivityTimer
  activeUserSessions,        \* Map userId -> {session, sessionId}
  timers,                    \* the timeouts scheduled and not yet run or cleared
  settings,                  \* session.settings of each session id
  handlers,                  \* transcription handlers subscribed on the session object, per locale
  inst,                      \* how many session objects each session id has had
  connected,                 \* the session object is between onSession and onStop
  objs,                      \* how many debouncer objects each session id has had
  hung,                      \* the program is stuck in a loop that never ends
  nInputs,                   \* how many calls the framework has made to the program
  out,                       \* the calls of showTextWall made by the last step, in order
  mon,                       \* history of each registered debouncer, for the properties
  last                       \* the last step taken, for the properties

appVars == <<now, userTranscriptProcessors, userActiveLanguages, sessionDebouncers,
             inactivityTimers, activeUserSessions, timers, settings, handlers,
             inst, connected, objs, hung, nInputs, out, mon, last>>

vars == <<tpVars, appVars>>

\* ------------------------------------------------------------------------
\* Maps and timeouts
\* ------------------------------------------------------------------------
EmptyMap == [x \in {} |-> 0]
Has(m, k) == k \in DOMAIN m
MapSet(m, k, v) == [x \in DOMAIN m \cup {k} |-> IF x = k THEN v ELSE m[x]]
MapDelete(m, k) == [x \in DOMAIN m \ {k} |-> m[x]]

\* what is remembered of the debouncer object a session id has registered:
\* pend     the displays of the non-final updates put on its timer since its
\*          last emission,
\* finalEv  the event of its last final emission,
\* shownAt, shownPrev  the times of its last two non-final emissions
NewMon == [pend |-> <<>>, finalEv |-> 0, shownAt |-> -1, shownPrev |-> -1]

\* the program state the handlers read and write, as one record
St ==
  [procs |-> userTranscriptProcessors, langs |-> userActiveLanguages,
   debs |-> sessionDebouncers, inact |-> inactivityTimers,
   active |-> activeUserSessions, timers |-> timers, handlers |-> handlers,
   objs |-> objs, hung |-> hung, out |-> <<>>, mon |-> mon,
   sinkFails |-> FALSE, thrown |-> FALSE]

\* the same state for a step in which every call of showTextWall throws
StSink(sinkFails) == [St EXCEPT !.sinkFails = sinkFails]

Commit(st) ==
  /\ userTranscriptProcessors' = st.procs
  /\ userActiveLanguages' = st.langs
  /\ sessionDebouncers' = st.debs
  /\ inactivityTimers' = st.inact
  /\ activeUserSessions' = st.active
  /\ timers' = st.timers
  /\ handlers' = st.handlers
  /\ objs' = st.objs
  /\ hung' = st.hung
  /\ out' = st.out
  /\ mon' = st.mon

\* a handle no pending timeout and no record holds
UsedHandles(st) ==
  {t.id : t \in st.timers}
    \cup {st.debs[k].timer : k \in DOMAIN st.debs}
    \cup {st.inact[k].timer : k \in DOMAIN st.inact}
FreshHandle(st) ==
  CHOOSE n \in 1..(Cardinality(UsedHandles(st)) + 1) :
    /\ n \notin UsedHandles(st)
    /\ \A m \in 1..(n - 1) : m \in UsedHandles(st)

\* setTimeout: the callback's captured variables are the fields of the entry
setTimeout(st, id, kind, sid, i, obj, transcript, ev, delay) ==
  [st EXCEPT !.timers = @ \cup {[id |-> id, kind |-> kind, sid |-> sid, inst |-> i,
                                 obj |-> obj, transcript |-> transcript, ev |-> ev,
                                 at |-> now + delay]}]

\* a clearTimeout that leaves the timeout scheduled
clearTimeout_Noop(st, id) == st

clearTimeout(st, id) ==
  [st EXCEPT !.timers = {t \in @ : t.id # id}]

\* ------------------------------------------------------------------------
\* Settings helpers (languageLocale.ts)
\* ------------------------------------------------------------------------
languageToLocale(language) ==
  IF language = "Chinese (Hanzi)" THEN "zh-CN" ELSE "en-US"

\* String.prototype.toLowerCase on ASCII text: every upper-case letter becomes
\* its lower-case letter, every other character stays
LowerLetters ==
  <<"a", "b", "c", "d", "e", "f", "g", "h", "i", "j", "k", "l", "m",
    "n", "o", "p", "q", "r", "s", "t", "u", "v", "w", "x", "y", "z">>
UpperLetters ==
  <<"A", "B", "C", "D", "E", "F", "G", "H", "I", "J", "K", "L", "M",
    "N", "O", "P", "Q", "R", "S", "T", "U", "V", "W", "X", "Y", "Z">>
LowerChar(c) ==
  IF \E i \in 1..Len(UpperLetters) : UpperLetters[i] = c
  THEN LowerLetters[CHOOSE i \in 1..Len(UpperLetters) : UpperLetters[i] = c]
  ELSE c
\* a variant of toLowerCase that leaves the text as it is
ToLowerCase_Identity(str) == str
ToLowerCase(str) == [i \in 1..Len(str) |-> LowerChar(str[i])]

\* convertLineWidth; width is [k, n, s]: a number or a string
convertLineWidth(width, isHanzi) ==
  IF width.k = "num" THEN width.n
  ELSE LET w == ToLowerCase(width.s)
       IN IF ~isHanzi
          THEN CASE w = VeryNarrowName -> 21
                 [] w = NarrowName -> 30
                 [] w = MediumName -> 38
                 [] w = WideName -> 44
                 [] w = VeryWideName -> 52
                 [] OTHER -> 45
          ELSE CASE w = VeryNarrowName -> 7
                 [] w = NarrowName -> 10
                 [] w = MediumName -> 14
                 [] w = WideName -> 18
                 [] w = VeryWideName -> 21
                 [] OTHER -> 14

\* session.settings.get(key, defaultValue)
SettingsGet(store, key, defaultValue) ==
  IF store[key].k = "absent" THEN defaultValue ELSE store[key]

\* value.toString(): a string stays itself, a number becomes its decimal text
DecimalText(n) ==
  CASE n = 10 -> <<"1", "0">>
    [] n = 20 -> <<"2", "0">>
    [] n = 30 -> <<"3", "0">>
    [] OTHER -> <<"0">>
ValueToString(v) ==
  IF v.k = "str" THEN v
  ELSE IF v.k = "nan" THEN Str(<<"N", "a", "N">>)
  ELSE Str(DecimalText(v.n))

\* ------------------------------------------------------------------------
\* LiveCaptionsApp methods, on the state record
\* ------------------------------------------------------------------------
RECURSIVE StripLeadingPunct(_)
StripLeadingPunct(text) ==
  IF text # <<>> /\ Head(text) \in Punct THEN StripLeadingPunct(Tail(text)) ELSE text

\* a variant that trims and removes no punctuation
cleanTranscriptText_TrimOnly(text) == Trim(text)
cleanTranscriptText(text) == Trim(StripLeadingPunct(text))

\* the debouncer object obj is the one the map holds for sid
Registered(st, sid, obj) == Has(st.debs, sid) /\ st.debs[sid].obj = obj

\* an emission through the registered debouncer enters its history
Remember(st, sid, isFinal, obj, ev) ==
  IF ~Registered(st, sid, obj) THEN st
  ELSE IF isFinal
  THEN [st EXCEPT !.mon[sid].pend = <<>>, !.mon[sid].finalEv = ev]
  ELSE [st EXCEPT !.mon[sid].pend = <<>>, !.mon[sid].shownPrev = st.mon[sid].shownAt,
                  !.mon[sid].shownAt = now]

\* session.layouts.showTextWall on the session object (sid, i)
\* (a call that throws is recorded with failed = TRUE and leaves the
\* exception in thrown)
showTextWall(st, sid, i, text, via, isFinal, obj, ev) ==
  [st EXCEPT !.out = Append(@, [sid |-> sid, inst |-> i, text |-> text, via |-> via,
                                isFinal |-> isFinal, obj |-> obj, ev |-> ev,
                                failed |-> st.sinkFails]),
             !.thrown = st.sinkFails]

showTranscriptsToUser(st, sid, i, transcript, isFinal, via, obj, ev) ==
  LET shown == showTextWall(st, sid, i, cleanTranscriptText(transcript), via, isFinal,
                            obj, ev)
  IN IF shown.thrown THEN shown ELSE Remember(shown, sid, isFinal, obj, ev)

\* resetInactivityTimer without its clearTimeout
resetInactivityTimer_NoClear(st, sid, i) ==
  IF ~Has(st.inact, sid) THEN st
  ELSE LET id == FreshHandle(st)
           st2 == setTimeout(st, id, "inactivity", sid, i, 0, <<>>, 0, InactivityDelay)
       IN [st2 EXCEPT !.inact = MapSet(@, sid, [timer |-> id, lastActivityTime |-> now])]

resetInactivityTimer(st, sid, i) ==
  IF ~Has(st.inact, sid) THEN st
  ELSE LET st1 == IF st.inact[sid].timer # NoTimer
                  THEN clearTimeout(st, st.inact[sid].timer) ELSE st
           id == FreshHandle(st1)
           st2 == setTimeout(st1, id, "inactivity", sid, i, 0, <<>>, 0, InactivityDelay)
       IN [st2 EXCEPT !.inact = MapSet(@, sid, [timer |-> id, lastActivityTime |-> now])]

\* the callback of the inactivity timeout t
InactivityCallback(st, t) ==
  IF Has(st.procs, UserOf(t.sid))
  THEN showTextWall([st EXCEPT !.procs = MapSet(@, UserOf(t.sid), clear(@[UserOf(t.sid)]))],
                    t.sid, t.inst, <<>>, "inactivity", FALSE, 0, 0)
  ELSE st

\* a new TranscriptDebouncer object for sid
NewDebouncer(st, sid) ==
  [st EXCEPT !.debs = MapSet(@, sid, [lastSentTime |-> 0, timer |-> NoTimer,
                                      obj |-> st.objs[sid] + 1]),
             !.objs[sid] = @ + 1,
             !.mon[sid] = NewMon]

\* a throttle test that always lets the update through
ThrottleElapsed_Always(deb) == TRUE

\* now - debouncer.lastSentTime >= debounceDelay
ThrottleElapsed(deb) == now - deb.lastSentTime >= debounceDelay

\* debounceAndShowTranscript with final updates sent through the throttle
debounceAndShowTranscript_FinalThrottled(st, sid, i, transcript, isFinal, ev) ==
  LET st0 == IF Has(st.debs, sid) THEN st ELSE NewDebouncer(st, sid)
      deb0 == st0.debs[sid]
      st1 == IF deb0.timer # NoTimer
             THEN [clearTimeout(st0, deb0.timer) EXCEPT !.debs[sid].timer = NoTimer]
             ELSE st0
      deb == st1.debs[sid]
  IN IF ThrottleElapsed(deb)
     THEN LET shown == showTranscriptsToUser(st1, sid, i, transcript, isFinal, "event",
                                             deb.obj, ev)
          IN IF shown.thrown THEN shown
             ELSE [shown EXCEPT !.debs[sid].lastSentTime = now]
     ELSE LET id == FreshHandle(st1)
          IN [setTimeout(st1, id, "debounce", sid, i, deb.obj, transcript, ev, debounceDelay)
                EXCEPT !.debs[sid].timer = id,
                       !.mon[sid].pend = Append(@, transcript)]

debounceAndShowTranscript(st, sid, i, transcript, isFinal, ev) ==
  LET st0 == IF Has(st.debs, sid) THEN st ELSE NewDebouncer(st, sid)
      deb0 == st0.debs[sid]
      st1 == IF deb0.timer # NoTimer
             THEN [clearTimeout(st0, deb0.timer) EXCEPT !.debs[sid].timer = NoTimer]
             ELSE st0
      deb == st1.debs[sid]
      shown == showTranscriptsToUser(st1, sid, i, transcript, isFinal, "event", deb.obj, ev)
  IN IF isFinal \/ ThrottleElapsed(deb)
     THEN IF shown.thrown THEN shown
          ELSE [shown EXCEPT !.debs[sid].lastSentTime = now]
     ELSE LET id == FreshHandle(st1)
          IN [setTimeout(st1, id, "debounce", sid, i, deb.obj, transcript, ev, debounceDelay)
                EXCEPT !.debs[sid].timer = id,
                       !.mon[sid].pend = Append(@, transcript)]

\* the callback of the debounce timeout t: it writes lastSentTime of the
\* debouncer object it captured, which the map may no longer hold
\* a variant whose callback emits nothing
DebounceCallback_Silent(st, t) == st

DebounceCallback(st, t) ==
  LET st1 == showTranscriptsToUser(st, t.sid, t.inst, t.transcript, FALSE, "timer", t.obj, t.ev)
  IN IF ~st1.thrown /\ Registered(st1, t.sid, t.obj)
     THEN [st1 EXCEPT !.debs[t.sid].lastSentTime = now]
     ELSE st1

handleTranscription(st, sid, i, text, isFinal, ev) ==
  LET u == UserOf(sid)
      st1 == resetInactivityTimer(st, sid, i)
      st2 == IF Has(st1.procs, u) THEN st1
             ELSE [st1 EXCEPT !.procs =
                     MapSet(@, u, NewProcessor(DefaultMaxCharsPerLine, DefaultMaxLines,
                                               MAX_FINAL_TRANSCRIPTS, FALSE))]
      r == processString(st2.procs[u], text, isFinal)
      st3 == [st2 EXCEPT !.procs[u] = r.proc]
  IN IF ~r.ok THEN [st3 EXCEPT !.hung = TRUE]
     ELSE debounceAndShowTranscript(st3, sid, i, r.ret, isFinal, ev)

\* a replay that passes no entry of the history on
Replay_Forget(r, history) == r

\* newProcessor.processString(transcript, true) for each entry of the history
RECURSIVE Replay(_, _)
Replay(r, history) ==
  IF history = <<>> \/ ~r.ok THEN r
  ELSE Replay(processString(r.proc, Head(history), TRUE), Tail(history))

\* a variant of the line count that falls back to one line
NumberOfLines_FallbackOne(rawLines) ==
  IF rawLines.k # "num" \/ rawLines.n < 1 THEN 1 ELSE rawLines.n
\* if (isNaN(numberOfLines) || numberOfLines < 1) numberOfLines = 3
NumberOfLines(rawLines) ==
  IF rawLines.k # "num" \/ rawLines.n < 1 THEN DefaultMaxLines ELSE rawLines.n

applySettings(st, store, sid, i) ==
  LET u == UserOf(sid)
      language == SettingsGet(store, "transcribe_language", Str("English")).s
      locale == languageToLocale(language)
      previousLanguage == IF Has(st.langs, u) THEN st.langs[u] ELSE "none"
      languageChanged == previousLanguage # "none" /\ previousLanguage # language
      st1 == [st EXCEPT !.langs = MapSet(@, u, language)]
      isChineseLanguage == language = "Chinese (Hanzi)"
      rawWidth == SettingsGet(store, "line_width",
                              IF isChineseLanguage THEN Num(10) ELSE Num(30))
      lineWidth == convertLineWidth(ValueToString(rawWidth), isChineseLanguage)
      rawLines == SettingsGet(store, "number_of_lines", Num(3))
      numberOfLines == NumberOfLines(rawLines)
      newProcessor == NewProcessor(lineWidth, numberOfLines, MAX_FINAL_TRANSCRIPTS,
                                   isChineseLanguage)
      start == [proc |-> newProcessor, ret |-> <<>>, ok |-> TRUE, wrapped |-> <<>>]
      replayed == IF ~languageChanged /\ Has(st.procs, u)
                  THEN Replay(start, st.procs[u].finalTranscriptHistory)
                  ELSE start
      formatted == processString(replayed.proc, <<>>, TRUE)
  IN IF ~replayed.ok THEN [st1 EXCEPT !.hung = TRUE]
     ELSE IF ~formatted.ok
     THEN [st1 EXCEPT !.procs = MapSet(@, u, formatted.proc), !.hung = TRUE]
     ELSE LET shown == showTranscriptsToUser(
                         [st1 EXCEPT !.procs = MapSet(@, u, formatted.proc)],
                         sid, i, formatted.ret, TRUE, "settings", 0, 0)
          IN IF shown.thrown THEN shown
             ELSE [shown EXCEPT !.handlers[sid][locale] = @ + 1]

\* onSession; when applySettings throws, the catch block installs a default
\* processor and subscribes a handler for en-US
onSession(st, store, sid, i) ==
  LET st1 == [NewDebouncer(st, sid) EXCEPT
                !.inact = MapSet(@, sid, [timer |-> NoTimer, lastActivityTime |-> now]),
                !.active = MapSet(@, UserOf(sid), [inst |-> i, sessionId |-> sid]),
                !.handlers[sid] = [l \in Locales |-> 0]]
      applied == applySettings(st1, store, sid, i)
  IN IF applied.thrown
     THEN [applied EXCEPT
             !.procs = MapSet(@, UserOf(sid),
                              NewProcessor(DefaultMaxCharsPerLine, DefaultMaxLines,
                                           MAX_FINAL_TRANSCRIPTS, FALSE)),
             !.handlers[sid]["en-US"] = @ + 1,
             !.thrown = FALSE]
     ELSE applied

onStop(st, sid) ==
  LET u == UserOf(sid)
      st1 == IF Has(st.debs, sid) /\ st.debs[sid].timer # NoTimer
             THEN clearTimeout(st, st.debs[sid].timer) ELSE st
      st2 == [st1 EXCEPT !.debs = MapDelete(@, sid)]
      st3 == IF Has(st2.inact, sid) /\ st2.inact[sid].timer # NoTimer
             THEN clearTimeout(st2, st2.inact[sid].timer) ELSE st2
      st4 == [st3 EXCEPT !.inact = MapDelete(@, sid)]
      st5 == IF Has(st4.active, u) /\ st4.active[u].sessionId = sid
             THEN [st4 EXCEPT !.active = MapDelete(@, u)] ELSE st4
  IN [st5 EXCEPT !.procs = MapDelete(@, u), !.langs = MapDelete(@, u)]

\* ------------------------------------------------------------------------
\* Spec: the application and its environment
\* ------------------------------------------------------------------------
NoStep == [kind |-> "init", sid |-> "", arg |-> <<>>, pre |-> <<>>]

\* what the properties need of the state a step started in
Snapshot(sid) ==
  LET u == UserOf(sid)
  IN [hasProc |-> Has(userTranscriptProcessors, u),
      history |-> IF Has(userTranscriptProcessors, u)
                  THEN userTranscriptProcessors[u].finalTranscriptHistory ELSE <<>>,
      language |-> IF Has(userActiveLanguages, u) THEN userActiveLanguages[u] ELSE "none",
      hasDebouncer |-> Has(sessionDebouncers, sid),
      lastSentTime |-> IF Has(sessionDebouncers, sid)
                       THEN sessionDebouncers[sid].lastSentTime ELSE 0,
      debounceTimer |-> IF Has(sessionDebouncers, sid)
                        THEN sessionDebouncers[sid].timer ELSE NoTimer,
      inactivityTimer |-> IF Has(inactivityTimers, sid)
                          THEN inactivityTimers[sid].timer ELSE NoTimer,
      pend |-> mon[sid].pend]

InitApp ==
  /\ now = StartTime
  /\ userTranscriptProcessors = EmptyMap
  /\ userActiveLanguages = EmptyMap
  /\ sessionDebouncers = EmptyMap
  /\ inactivityTimers = EmptyMap
  /\ activeUserSessions = EmptyMap
  /\ timers = {}
  /\ settings = [sid \in Sessions |-> InitialSettings]
  /\ handlers = [sid \in Sessions |-> [l \in Locales |-> 0]]
  /\ inst = [sid \in Sessions |-> 0]
  /\ connected = [sid \in Sessions |-> FALSE]
  /\ objs = [sid \in Sessions |-> 0]
  /\ hung = FALSE
  /\ nInputs = 0
  /\ out = <<>>
  /\ mon = [sid \in Sessions |-> NewMon]
  /\ last = NoStep

InitTPIdle ==
  /\ tp = NewProcessor(DefaultMaxCharsPerLine, DefaultMaxLines, MAX_FINAL_TRANSCRIPTS, FALSE)
  /\ tpCall = NoCall
  /\ tpAppended = <<>>
  /\ sessions = EmptyMap

Init == InitApp /\ InitTPIdle

\* the framework calls onSession(session, sessionId, userId) with a new
\* session object
SessionStartsWith(sid, sinkFails) ==
  /\ ~hung
  /\ Commit(onSession(StSink(sinkFails), settings[sid], sid, inst[sid] + 1))
  /\ nInputs' = nInputs + 1
  /\ inst' = [inst EXCEPT ![sid] = @ + 1]
  /\ connected' = [connected EXCEPT ![sid] = TRUE]
  /\ last' = [kind |-> "start", sid |-> sid, arg |-> <<>>, pre |-> Snapshot(sid)]
  /\ UNCHANGED <<now, settings, tpVars>>

\* the framework calls onSession(session, sessionId, userId)
SessionStarts(sid) == SessionStartsWith(sid, FALSE)

Start(sid) == nInputs < MaxInputs /\ SessionStarts(sid)

\* the framework calls onStop(sessionId, userId, reason)
SessionStops(sid) ==
  /\ ~hung
  /\ connected[sid]
  /\ Commit([onStop(St, sid) EXCEPT !.mon[sid] = NewMon])
  /\ nInputs' = nInputs + 1
  /\ connected' = [connected EXCEPT ![sid] = FALSE]
  /\ last' = [kind |-> "stop", sid |-> sid, arg |-> <<>>, pre |-> Snapshot(sid)]
  /\ UNCHANGED <<now, settings, inst, tpVars>>

Stop(sid) == nInputs < MaxInputs /\ SessionStops(sid)

\* every handler subscribed for the locale runs handleTranscription
RECURSIVE RunHandlers(_, _, _, _, _, _, _)
RunHandlers(st, n, sid, i, text, isFinal, ev) ==
  IF n = 0 \/ st.hung \/ st.thrown THEN st
  ELSE RunHandlers(handleTranscription(st, sid, i, text, isFinal, ev),
                   n - 1, sid, i, text, isFinal, ev)

\* a transcription event for one locale reaches the handlers subscribed on
\* the session object
EventDeliveredWith(sid, locale, text, isFinal, sinkFails) ==
  /\ ~hung
  /\ handlers[sid][locale] > 0
  /\ Commit(RunHandlers(StSink(sinkFails), handlers[sid][locale], sid, inst[sid], text,
                        isFinal, nInputs + 1))
  /\ nInputs' = nInputs + 1
  /\ last' = [kind |-> "event", sid |-> sid,
              arg |-> [text |-> text, isFinal |-> isFinal, runs |-> handlers[sid][locale]],
              pre |-> Snapshot(sid)]
  /\ UNCHANGED <<now, settings, inst, connected, tpVars>>

EventDelivered(sid, locale, text, isFinal) ==
  EventDeliveredWith(sid, locale, text, isFinal, FALSE)

\* a transcription event of a session between onSession and onStop
Transcription(sid, locale, text, isFinal) ==
  /\ connected[sid]
  /\ nInputs < MaxInputs
  /\ EventDelivered(sid, locale, text, isFinal)

\* session.settings.onValueChange: one key changes and applySettings runs
SettingChanged(sid, key, value) ==
  /\ ~hung
  /\ connected[sid]
  /\ nInputs' = nInputs + 1
  /\ settings[sid][key] # value
  /\ settings' = [settings EXCEPT ![sid][key] = value]
  /\ Commit(applySettings(St, settings'[sid], sid, inst[sid]))
  /\ last' = [kind |-> "change", sid |-> sid, arg |-> key, pre |-> Snapshot(sid)]
  /\ UNCHANGED <<now, inst, connected, tpVars>>

SettingChange(sid, key, value) == nInputs < MaxInputs /\ SettingChanged(sid, key, value)

\* time passes, never past a timeout that is due
Advance(dt) ==
  /\ ~hung
  /\ now + dt <= StartTime + MaxTicks * dt
  /\ \A t \in timers : t.at >= now + dt
  /\ now' = now + dt
  /\ out' = <<>>
  /\ last' = [kind |-> "advance", sid |-> "", arg |-> <<>>, pre |-> <<>>]
  /\ UNCHANGED <<userTranscriptProcessors, userActiveLanguages, sessionDebouncers,
                 inactivityTimers, activeUserSessions, timers, settings, handlers,
                 inst, connected, objs, hung, nInputs, mon, tpVars>>

\* nothing happens until the next timeout is due
AdvanceToTimer ==
  /\ ~hung
  /\ timers # {}
  /\ \A t \in timers : t.at > now
  /\ \E t \in timers :
       /\ \A t2 \in timers : t.at <= t2.at
       /\ now' = t.at
  /\ out' = <<>>
  /\ last' = [kind |-> "advance", sid |-> "", arg |-> <<>>, pre |-> <<>>]
  /\ UNCHANGED <<userTranscriptProcessors, userActiveLanguages, sessionDebouncers,
                 inactivityTimers, activeUserSessions, timers, settings, handlers,
                 inst, connected, objs, hung, nInputs, mon, tpVars>>

\* a due timeout runs its callback
FireTimerWith(t, sinkFails) ==
  /\ ~hung
  /\ t.at <= now
  /\ LET st == [StSink(sinkFails) EXCEPT !.timers = @ \ {t}]
     IN Commit(IF t.kind = "debounce" THEN DebounceCallback(st, t)
               ELSE InactivityCallback(st, t))
  /\ last' = [kind |-> "fire", sid |-> t.sid, arg |-> t, pre |-> Snapshot(t.sid)]
  /\ UNCHANGED <<now, settings, inst, connected, nInputs, tpVars>>

FireTimer(t) == FireTimerWith(t, FALSE)

\* the session ids that are started under Spec
SpecSessions == {"s1"}

Next ==
  \/ \E sid \in SpecSessions : Start(sid)
  \/ \E sid \in Sessions : Stop(sid)
  \/ \E sid \in Sessions, locale \in Locales, text \in Texts, isFinal \in BOOLEAN :
       Transcription(sid, locale, text, isFinal)
  \/ \E sid \in Sessions, key \in SettingKeys :
       \E value \in SettingValues(key) : SettingChange(sid, key, value)
  \/ \E dt \in TimeStep : Advance(dt)
  \/ AdvanceToTimer
  \/ \E t \in timers : FireTimer(t)

Spec == Init /\ [][Next]_vars

\* ------------------------------------------------------------------------
\* SpecTP: one TranscriptProcessor, the application idle
\* ------------------------------------------------------------------------
InitTP ==
  /\ tp \in {NewProcessor(w, l, c, ch) :
               w \in 1..MaxWidth, l \in 1..MaxLinesTP, c \in 1..MaxCap,
               ch \in BOOLEAN}
  /\ tpCall = NoCall
  /\ tpAppended = <<>>
  /\ sessions = EmptyMap
  /\ InitApp

\* a call that never returns leaves the program stuck in it
TPRunning == tpCall.ok

TPProcessString(text, isFinal) ==
  /\ TPRunning
  /\ (isFinal /\ TrimmedText(text) # <<>>) => Len(tpAppended) < MaxAppend
  /\ LET r == processString(tp, text, isFinal)
     IN /\ tp' = r.proc
        /\ tpCall' = [op |-> "processString", text |-> text, isFinal |-> isFinal,
                      ok |-> r.ok, ret |-> r.ret, wrapped |-> r.wrapped]
        /\ tpAppended' = IF isFinal /\ TrimmedText(text) # <<>>
                         THEN Append(tpAppended, TrimmedText(text))
                         ELSE tpAppended
  /\ UNCHANGED <<appVars, sessions>>

TPClear ==
  /\ TPRunning
  /\ tp' = clear(tp)
  /\ tpCall' = [NoCall EXCEPT !.op = "clear"]
  /\ tpAppended' = <<>>
  /\ UNCHANGED <<appVars, sessions>>

NextTP ==
  \/ \E text \in TPTexts, isFinal \in BOOLEAN : TPProcessString(text, isFinal)
  \/ TPClear

SpecTP == InitTP /\ [][NextTP]_vars

\* ------------------------------------------------------------------------
\* Properties of the TranscriptProcessor (SpecTP)
\* ------------------------------------------------------------------------
TPReturned == tpCall.op = "processString" /\ tpCall.ok

\* C2: after every call of processString that returned, for null, empty and
\* any other text and for both values of isFinal, currentDisplayLines has
\* exactly maxLines entries.
C2_DisplayLinesExactlyMaxLines ==
  TPReturned => Len(tp.currentDisplayLines) = tp.maxLines

\* a call whose wrapped text had more lines than maxLines
C2_Witness ==
  /\ TPReturned
  /\ Len(tpCall.wrapped) > tp.maxLines
  /\ Len(tp.currentDisplayLines) = tp.maxLines

\* C3: every line wrapText returns has at most maxCharsPerLine characters, in
\* whitespace mode and in logographic mode; a token longer than the width
\* comes back in pieces of at most the width.
C3_WrappedLinesWithinWidth ==
  TPReturned =>
    \A i \in 1..Len(tpCall.wrapped) : Len(tpCall.wrapped[i]) <= tp.maxCharsPerLine

\* the single token "ababa" wrapped at a width below its length
C3_Witness ==
  /\ TPReturned
  /\ tpCall.isFinal
  /\ ~tp.isChinese
  /\ tp.finalTranscriptHistory = << <<"a", "b", "a", "b", "a">> >>
  /\ tp.maxCharsPerLine = 2
  /\ tpCall.wrapped = << <<"a", "b">>, <<"a", "b">>, <<"a">> >>

\* the last n entries of a sequence
LastN(seq, n) == SubSeq(seq, Len(seq) - n + 1, Len(seq))

\* C4: the history never holds more than maxFinalTranscripts entries and is
\* exactly the most recent maxFinalTranscripts non-blank final transcripts it
\* was given, in arrival order.
C4_HistoryIsMostRecent ==
  /\ Len(tp.finalTranscriptHistory) <= tp.maxFinalTranscripts
  /\ tp.finalTranscriptHistory =
       LastN(tpAppended, Min(Len(tpAppended), tp.maxFinalTranscripts))

\* more finals appended than the capacity: the oldest were evicted
C4_Witness ==
  /\ Len(tpAppended) > tp.maxFinalTranscripts
  /\ Len(tp.finalTranscriptHistory) = tp.maxFinalTranscripts
  /\ tp.finalTranscriptHistory[1] # tpAppended[1]

\* ------------------------------------------------------------------------
\* Properties of the application (Spec)
\*
\* A session is one session object: it begins with the onSession call that
\* receives it and ends with onStop.  inst[sid] numbers the session objects a
\* session id has had; the debouncer object and the inactivity timer of the
\* session are the ones the maps hold for its id.
\* ------------------------------------------------------------------------
Last(seq) == seq[Len(seq)]

\* the pending debounce timeouts of the debouncer registered for sid
DebounceTimers(sid) ==
  {t \in timers : /\ t.kind = "debounce"
                  /\ t.sid = sid
                  /\ Has(sessionDebouncers, sid)
                  /\ t.obj = sessionDebouncers[sid].obj}

\* the pending inactivity timeouts of the current session object of sid
InactivityTimers(sid) ==
  {t \in timers : t.kind = "inactivity" /\ t.sid = sid /\ t.inst = inst[sid]}

\* the last step ran the callback of a debounce timeout of the registered debouncer
DebounceFired ==
  /\ last.kind = "fire"
  /\ last.arg.kind = "debounce"
  /\ Has(sessionDebouncers, last.sid)
  /\ last.arg.obj = sessionDebouncers[last.sid].obj

\* the last step ran the callback of the inactivity timeout the session holds
InactivityFired ==
  /\ last.kind = "fire"
  /\ last.arg.kind = "inactivity"
  /\ Has(inactivityTimers, last.sid)
  /\ last.arg.id = inactivityTimers[last.sid].timer
  /\ last.arg.inst = inst[last.sid]

\* the last step was a transcription event that every handler run returned from
EventDone == last.kind = "event" /\ ~hung

\* the display the processor of the user of sid holds, as processString returns it
CurrentDisplay(sid) ==
  Join(userTranscriptProcessors[UserOf(sid)].currentDisplayLines, <<NL>>)

\* C1: every display update handed to showTextWall for a transcription event,
\* a debounce timeout or a settings change has exactly maxLines
\* newline-separated lines, maxLines being the line count of the user's
\* processor.  The code trims the joined string before it reaches the sink,
\* so the padding lines are lost: this statement is violated.
C1_EmittedDisplayHasMaxLines ==
  \A k \in 1..Len(out) :
    (out[k].via \in {"event", "timer", "settings"}
       /\ Has(userTranscriptProcessors, UserOf(out[k].sid)))
      => LineCount(out[k].text) = userTranscriptProcessors[UserOf(out[k].sid)].maxLines

DisplayOf(p, history) ==
  Join(EnsureMaxLines(wrapText(Join(history, <<SP>>), p.maxCharsPerLine, p.isChinese).lines,
                      p.maxLines),
       <<NL>>)

\* the last step applied a change of line width or line count, the language
\* being the one the user had before
LayoutChanged ==
  /\ last.kind = "change"
  /\ last.arg \in {"line_width", "number_of_lines"}
  /\ ~hung
  /\ last.pre.hasProc
  /\ Has(userActiveLanguages, UserOf(last.sid))
  /\ userActiveLanguages[UserOf(last.sid)] = last.pre.language

\* C10: after a change of line width or line count with the language
\* unchanged, the history is the sequence it was before the change, and the
\* step emitted exactly one display, as a final update: the history wrapped
\* and padded with the new processor's width and line count.
C10_LayoutChangeKeepsHistory ==
  LayoutChanged =>
    LET p == userTranscriptProcessors[UserOf(last.sid)]
    IN /\ p.finalTranscriptHistory = last.pre.history
       /\ Len(out) = 1
       /\ out[1].isFinal
       /\ out[1].via = "settings"
       /\ out[1].sid = last.sid /\ out[1].inst = inst[last.sid]
       /\ out[1].text = cleanTranscriptText(DisplayOf(p, last.pre.history))

\* the width went from the default to 21 with the 23-character text in the history,
\* which now takes two lines
C10_Witness ==
  /\ LayoutChanged
  /\ last.arg = "line_width"
  /\ last.pre.history = <<LongText>>
  /\ userTranscriptProcessors[UserOf(last.sid)].maxCharsPerLine = 21
  /\ Len(out) = 1
  /\ LineCount(out[1].text) = 2

\* ------------------------------------------------------------------------
\* SpecSettings: one session, every kind of settings value, no clock
\* ------------------------------------------------------------------------
SettingsTexts == {ShortText, HanText}

\* values of the settings store, well-formed and malformed
AllSettingValues(key) ==
  CASE key = "transcribe_language" -> {Str("English"), Str("Chinese (Hanzi)")}
    [] key = "line_width" -> {Absent, Str(VeryNarrowName), Str(HugeName), Num(20)}
    [] key = "number_of_lines" -> {Absent, Num(1), Num(0), NaN}

NextSettings ==
  \/ \E sid \in SpecSessions : Start(sid)
  \/ \E sid \in SpecSessions, locale \in Locales, text \in SettingsTexts, isFinal \in BOOLEAN :
       Transcription(sid, locale, text, isFinal)
  \/ \E sid \in SpecSessions, key \in SettingKeys :
       \E value \in AllSettingValues(key) : SettingChange(sid, key, value)

SpecSettings == Init /\ [][NextSettings]_vars

\* ------------------------------------------------------------------------
\* Properties of the settings handling (SpecSettings)
\* ------------------------------------------------------------------------
\* the last step applied a settings change that changed the user's language
LanguageChanged ==
  /\ last.kind = "change"
  /\ ~hung
  /\ last.pre.language # "none"
  /\ userActiveLanguages[UserOf(last.sid)] # last.pre.language

\* the last step was a non-blank final event on an empty history
FirstFinal ==
  /\ EventDone
  /\ last.arg.isFinal
  /\ last.pre.hasProc
  /\ last.pre.history = <<>>
  /\ TrimmedText(last.arg.text) # <<>>

MaxEnvInputs == 4

EnvTexts == {ShortText}

\* a transcription event reaches the handlers of a session object after its onStop
LateTranscription(sid, locale, text, isFinal) ==
  /\ ~connected[sid]
  /\ inst[sid] > 0
  /\ nInputs < MaxEnvInputs
  /\ EventDelivered(sid, locale, text, isFinal)

NextEnv ==
  \/ \E sid \in Sessions : nInputs < MaxEnvInputs /\ SessionStarts(sid)
  \/ \E sid \in Sessions : nInputs < MaxEnvInputs /\ SessionStops(sid)
  \/ \E sid \in Sessions, locale \in Locales, text \in EnvTexts, isFinal \in BOOLEAN :
       nInputs < MaxEnvInputs /\ connected[sid] /\ EventDelivered(sid, locale, text, isFinal)
  \/ \E sid \in Sessions, locale \in Locales, text \in EnvTexts, isFinal \in BOOLEAN :
       LateTranscription(sid, locale, text, isFinal)
  \/ \E sid \in Sessions, key \in SettingKeys :
       \E value \in SettingValues(key) :
         nInputs < MaxEnvInputs /\ SettingChanged(sid, key, value)
  \/ AdvanceToTimer
  \/ \E t \in timers : FireTimer(t)

SpecEnv == Init /\ [][NextEnv]_vars

\* ------------------------------------------------------------------------
\* Properties of the session registry (SpecEnv)
\* ------------------------------------------------------------------------
\* onStop has been called for the session id and no onSession since
Stopped(sid) == inst[sid] > 0 /\ ~connected[sid]

\* C12: right after onStop(sessionId, userId) no timeout of that session is
\* pending and its processor, language, debouncer and inactivity entries are
\* gone; and as long as the session stays stopped the entries stay gone and
\* no step hands a display of that session to the sink, whatever events
\* arrive.  The code creates a processor and a debouncer again and emits when
\* a transcription event reaches the stopped session: this statement is
\* violated.
C12_NothingAfterStop ==
  \A sid \in Sessions :
    Stopped(sid) =>
      /\ \A t \in timers : t.sid # sid
      /\ ~Has(sessionDebouncers, sid)
      /\ ~Has(inactivityTimers, sid)
      /\ (\A other \in Sessions \ {sid} : ~connected[other]) =>
           /\ ~Has(userTranscriptProcessors, UserOf(sid))
           /\ ~Has(userActiveLanguages, UserOf(sid))
      /\ \A k \in 1..Len(out) : out[k].sid # sid

\* what a session reads of its processor and language
SessionView(sid) ==
  LET u == UserOf(sid)
      has == Has(userTranscriptProcessors, u)
      p == IF has THEN userTranscriptProcessors[u]
           ELSE NewProcessor(0, 0, 0, FALSE)
  IN [hasProcessor |-> has,
      history |-> p.finalTranscriptHistory,
      partialText |-> p.partialText,
      maxCharsPerLine |-> p.maxCharsPerLine,
      maxLines |-> p.maxLines,
      language |-> IF Has(userActiveLanguages, u) THEN userActiveLanguages[u] ELSE "none"]

\* C13: a step of one session that is a transcription event, a settings
\* change, a timeout callback or a stop leaves the history, partial text,
\* width, line count and language of every other live session as they were.
\* The processor and language maps are keyed by user id, so two sessions of
\* one user share them: this statement is violated.
C13_OtherSessionsUntouched ==
  [][\A other \in Sessions :
       (/\ last'.kind \in {"event", "change", "fire", "stop"}
        /\ other # last'.sid
        /\ connected[other] /\ connected'[other])
         => SessionView(other)' = SessionView(other)]_vars

\* the keys of the five maps
RegistryKeys ==
  [processors |-> DOMAIN userTranscriptProcessors,
   languages |-> DOMAIN userActiveLanguages,
   debouncers |-> DOMAIN sessionDebouncers,
   inactivity |-> DOMAIN inactivityTimers,
   active |-> DOMAIN activeUserSessions]

\* C16: the keys of the processor, language, debouncer, inactivity and
\* active-session maps change only in an onSession or onStop step, and a
\* transcription event leaves them as they were.  handleTranscription and
\* debounceAndShowTranscript insert a default processor and a debouncer when
\* they find none: this statement is violated.
C16_RegistryChangesOnlyAtStartStop ==
  [][RegistryKeys' # RegistryKeys => last'.kind \in {"start", "stop"}]_vars

\* ------------------------------------------------------------------------
\* SpecRestart: one session id that is started, restarted and stopped while
\* transcription events arrive; no event is delivered after onStop
\* ------------------------------------------------------------------------
MaxRestartInputs == 6

NextRestart ==
  \/ nInputs < MaxRestartInputs /\ SessionStarts("s1")
  \/ nInputs < MaxRestartInputs /\ SessionStops("s1")
  \/ \E isFinal \in BOOLEAN :
       /\ nInputs < MaxRestartInputs
       /\ connected["s1"]
       /\ EventDelivered("s1", "en-US", ShortText, isFinal)
  \/ AdvanceToTimer
  \/ \E t \in timers : FireTimer(t)

SpecRestart == Init /\ [][NextRestart]_vars

\* every scheduled, not yet fired debounce timeout of the session id
PendingDebounce(sid) == {t \in timers : t.kind = "debounce" /\ t.sid = sid}

\* C14: in every reachable state a session id has at most one scheduled, not
\* yet fired debounce timeout, also when onSession ran more than once for the
\* id.  onSession replaces the debouncer record without clearing the timeout
\* the old record holds: this statement is violated.
C14_AtMostOneDebounceTimer ==
  \A sid \in Sessions : Cardinality(PendingDebounce(sid)) <= 1

\* the state a timeout callback must leave alone once the session is stopped
RegistryState ==
  <<userTranscriptProcessors, userActiveLanguages, sessionDebouncers,
    inactivityTimers, activeUserSessions>>

\* C15: a step that runs a debounce or inactivity timeout callback of a
\* stopped session passes nothing to the sink and leaves the five maps as
\* they were.  The debounce callback shows its text and writes lastSentTime
\* without asking whether the session is live: this statement is violated.
C15_CallbackAfterTeardownIsNoop ==
  [][(last'.kind = "fire" /\ Stopped(last'.sid))
       => (out' = <<>> /\ RegistryState' = RegistryState)]_vars

\* ------------------------------------------------------------------------
\* SpecCLW: convertLineWidth applied to one width and one script
\* ------------------------------------------------------------------------
\* how many leading characters of a width name may be upper case
MaxCased == 3

PresetNames == {VeryNarrowName, NarrowName, MediumName, WideName, VeryWideName}

UpperChar(c) ==
  IF \E i \in 1..Len(LowerLetters) : LowerLetters[i] = c
  THEN UpperLetters[CHOOSE i \in 1..Len(LowerLetters) : LowerLetters[i] = c]
  ELSE c

\* the name with the characters at the positions S in upper case
Cased(name, S) ==
  [i \in 1..Len(name) |-> IF i \in S THEN UpperChar(name[i]) ELSE name[i]]

\* the name with the first letter of each word in upper case
TitleCased(name) ==
  Cased(name, {i \in 1..Len(name) : i = 1 \/ name[i - 1] = SP})

\* the strings convertLineWidth is applied to: the names in several casings,
\* and strings that name no width
WidthStrings ==
  {Cased(name, S) : name \in PresetNames, S \in SUBSET (1..MaxCased)}
    \cup {TitleCased(name) : name \in PresetNames}
    \cup {Cased(name, 1..Len(name)) : name \in PresetNames}
    \cup {HugeName, <<>>, <<"3", "0">>, NarrowName \o <<"s">>,
          <<SP>> \o WideName, <<"v", "e", "r", "y">>}

WidthInputs == {Str(w) : w \in WidthStrings} \cup {Num(0), Num(30)}

InitCLW ==
  /\ InitApp
  /\ tp = NewProcessor(DefaultMaxCharsPerLine, DefaultMaxLines, MAX_FINAL_TRANSCRIPTS, FALSE)
  /\ tpAppended = <<>>
  /\ sessions = EmptyMap
  /\ tpCall \in {[op |-> "pending", ok |-> TRUE, width |-> w, isHanzi |-> h, ret |-> 0] :
                   w \in WidthInputs, h \in BOOLEAN}

CLWCall ==
  /\ tpCall.op = "pending"
  /\ tpCall' = [tpCall EXCEPT !.op = "convertLineWidth",
                              !.ret = convertLineWidth(tpCall.width, tpCall.isHanzi)]
  /\ UNCHANGED <<tp, tpAppended, sessions, appVars>>

NextCLW == CLWCall

SpecCLW == InitCLW /\ [][NextCLW]_vars

\* the two strings differ at most in the case of their letters
SameIgnoringCase(a, b) ==
  /\ Len(a) = Len(b)
  /\ \A i \in 1..Len(a) :
       \/ a[i] = b[i]
       \/ \E k \in 1..Len(LowerLetters) :
            {a[i], b[i]} = {LowerLetters[k], UpperLetters[k]}

\* the character counts of the five names, for the two kinds of script
PresetWidth(name, isHanzi) ==
  CASE name = VeryNarrowName -> IF isHanzi THEN 7 ELSE 21
    [] name = NarrowName -> IF isHanzi THEN 10 ELSE 30
    [] name = MediumName -> IF isHanzi THEN 14 ELSE 38
    [] name = WideName -> IF isHanzi THEN 18 ELSE 44
    [] name = VeryWideName -> IF isHanzi THEN 21 ELSE 52

CLWReturned == tpCall.op = "convertLineWidth" /\ tpCall.width.k = "str"

\* C17: convertLineWidth of a string that is one of the five width names in
\* any casing returns the count of that name: 21, 30, 38, 44, 52 for a
\* non-Hanzi script and 7, 10, 14, 18, 21 for Hanzi; of any other string it
\* returns 45, or 14 for Hanzi.
C17_PresetNamesIgnoreCase ==
  CLWReturned =>
    LET w == tpCall.width.s
        h == tpCall.isHanzi
    IN /\ \A name \in PresetNames :
            SameIgnoringCase(w, name) => tpCall.ret = PresetWidth(name, h)
       /\ (\A name \in PresetNames : ~SameIgnoringCase(w, name))
            => tpCall.ret = IF h THEN 14 ELSE 45

\* "VERy wide" for a Hanzi script gives 21
C17_Witness ==
  /\ CLWReturned
  /\ tpCall.width.s = <<"V", "E", "R", "y", SP, "w", "i", "d", "e">>
  /\ tpCall.isHanzi
  /\ tpCall.ret = 21

\* ------------------------------------------------------------------------
\* Properties of the settings (SpecSettings)
\* ------------------------------------------------------------------------
\* the last step ran applySettings for its session
SettingsApplied == last.kind \in {"start", "change"} /\ ~hung

\* the processor and the language applySettings left for the session
ProcessorOf(sid) == userTranscriptProcessors[UserOf(sid)]
IsHanzi(sid) == userActiveLanguages[UserOf(sid)] = "Chinese (Hanzi)"

\* C18: after applySettings, when the line_width setting is a number N > 0
\* the processor wraps at N characters, and when the setting is absent it
\* wraps at the numeric default: 30, or 10 for Hanzi.  applySettings turns
\* the value into its decimal text before convertLineWidth sees it, so the
\* width is 45 or 14: this statement is violated.
C18_NumericWidthIsUsed ==
  SettingsApplied =>
    LET w == settings[last.sid].line_width
    IN /\ (w.k = "num" /\ w.n > 0) => ProcessorOf(last.sid).maxCharsPerLine = w.n
       /\ w.k = "absent" =>
            ProcessorOf(last.sid).maxCharsPerLine = IF IsHanzi(last.sid) THEN 10 ELSE 30

\* the number_of_lines value is NaN or below 1
LinesMalformed(v) == v.k = "nan" \/ (v.k = "num" /\ v.n < 1)
\* the line_width value is a string that names no width
WidthMalformed(v) ==
  v.k = "str" /\ \A name \in PresetNames : ~SameIgnoringCase(v.s, name)

\* C19: in a live session whose number_of_lines is NaN or below 1 the
\* processor has 3 lines, and every display it has built since has exactly 3
\* lines; in one whose line_width is a string that names no width the
\* processor wraps at 45 characters, or 14 for Hanzi; and applySettings has
\* returned.
C19_MalformedSettingsGiveDefaults ==
  \A sid \in Sessions :
    (connected[sid] /\ Has(userTranscriptProcessors, UserOf(sid))) =>
      /\ LinesMalformed(settings[sid].number_of_lines) =>
           /\ ~hung
           /\ ProcessorOf(sid).maxLines = 3
           /\ Len(ProcessorOf(sid).currentDisplayLines) = 3
      /\ WidthMalformed(settings[sid].line_width) =>
           /\ ~hung
           /\ ProcessorOf(sid).maxCharsPerLine = IF IsHanzi(sid) THEN 14 ELSE 45

\* a final event in a session whose width is "huge" and whose line count is
\* NaN: the display has one line of text and two empty lines
C19_Witness ==
  /\ EventDone
  /\ last.arg.isFinal
  /\ settings[last.sid].line_width = Str(HugeName)
  /\ settings[last.sid].number_of_lines = NaN
  /\ ProcessorOf(last.sid).maxCharsPerLine = 45
  /\ Len(ProcessorOf(last.sid).currentDisplayLines) = 3
  /\ ProcessorOf(last.sid).currentDisplayLines[1] # <<>>
  /\ ProcessorOf(last.sid).currentDisplayLines[2] = <<>>
  /\ ProcessorOf(last.sid).currentDisplayLines[3] = <<>>

\* ------------------------------------------------------------------------
\* Null text (SpecTP)
\* ------------------------------------------------------------------------
\* C20: in every state of a processor, processString(null, f) and
\* processString("", f) return the same display and leave the same history,
\* partial text and display lines, and both return, for f partial and f
\* final.
C20_NullIsEmptyText ==
  TPRunning =>
    \A isFinal \in BOOLEAN :
      LET n == processString(tp, Null, isFinal)
          e == processString(tp, <<>>, isFinal)
      IN /\ n.ok /\ e.ok
         /\ n.ret = e.ret
         /\ n.proc = e.proc

\* a null partial text arrived at a processor with a history: the partial
\* text is empty and the display still shows the history
C20_Witness ==
  /\ TPReturned
  /\ tpCall.text = Null
  /\ ~tpCall.isFinal
  /\ tp.finalTranscriptHistory # <<>>
  /\ tp.partialText = <<>>
  /\ tpCall.ret = processString(tp, <<>>, FALSE).ret
  /\ \E k \in 1..Len(tp.currentDisplayLines) : tp.currentDisplayLines[k] # <<>>

\* ------------------------------------------------------------------------
\* Empty final transcripts (SpecTP)
\* ------------------------------------------------------------------------
\* C21: from every state of a processor, two calls processString("", true)
\* in a row both return, return the same display, and the second leaves the
\* history and the partial text as the first left them.
C21_EmptyFinalTwiceIsIdempotent ==
  TPRunning =>
    LET first == processString(tp, <<>>, TRUE)
        second == processString(first.proc, <<>>, TRUE)
    IN /\ first.ok /\ second.ok
       /\ second.ret = first.ret
       /\ second.proc.finalTranscriptHistory = first.proc.finalTranscriptHistory
       /\ second.proc.partialText = first.proc.partialText

\* an empty final text arrived at a processor that holds a history: the next
\* empty final returns the display this one returned, and it is not blank
C21_Witness ==
  /\ TPReturned
  /\ tpCall.text = <<>>
  /\ tpCall.isFinal
  /\ tp.finalTranscriptHistory # <<>>
  /\ tp.partialText = <<>>
  /\ processString(tp, <<>>, TRUE).ret = tpCall.ret
  /\ tp.currentDisplayLines[1] # <<>>

\* ------------------------------------------------------------------------
\* SpecClean: one session whose transcription texts carry punctuation
\* ------------------------------------------------------------------------
MaxCleanInputs == 3

CleanTexts ==
  {<<".", "a">>,
   <<",", ".", SP, "a">>,
   <<"a", ".">>,
   <<IdeographicStop, "b">>}

NextClean ==
  \/ nInputs < MaxCleanInputs /\ SessionStarts("s1")
  \/ \E text \in CleanTexts, isFinal \in BOOLEAN :
       /\ nInputs < MaxCleanInputs
       /\ connected["s1"]
       /\ EventDelivered("s1", "en-US", text, isFinal)
  \/ AdvanceToTimer
  \/ \E t \in timers : FireTimer(t)

SpecClean == Init /\ [][NextClean]_vars

\* text is raw without its leading run of punctuation marks and without the
\* whitespace around what is left
IsCleaned(raw, text) ==
  \E n \in 0..Len(raw) :
    /\ \A i \in 1..n : raw[i] \in Punct
    /\ n < Len(raw) => raw[n + 1] \notin Punct
    /\ \E a \in n..Len(raw) :
         /\ \A i \in (n + 1)..a : raw[i] \in WhiteSpace
         /\ a + Len(text) <= Len(raw)
         /\ text = SubSeq(raw, a + 1, a + Len(text))
         /\ \A i \in (a + Len(text) + 1)..Len(raw) : raw[i] \in WhiteSpace
         /\ text # <<>> => (text[1] \notin WhiteSpace /\ text[Len(text)] \notin WhiteSpace)

\* C22: the text an emission hands to the sink is the joined display (for a
\* timeout, the joined display the timeout was scheduled with) without its
\* leading punctuation marks and surrounding whitespace; a transcription
\* event leaves the processor exactly as processString left it, punctuation
\* included, and a debounce timeout leaves every processor as it was.
C22_CleaningOnlyOnEmittedString ==
  [][LET sid == last'.sid
         u == UserOf(sid)
     IN /\ (last'.kind \in {"start", "event"} /\ ~hung')
             => \A k \in 1..Len(out') :
                  IsCleaned(Join(userTranscriptProcessors'[u].currentDisplayLines, <<NL>>),
                            out'[k].text)
        /\ (last'.kind = "event" /\ ~hung' /\ last'.arg.runs = 1)
             => userTranscriptProcessors'[u] =
                  processString(userTranscriptProcessors[u], last'.arg.text,
                                last'.arg.isFinal).proc
        /\ (last'.kind = "fire" /\ last'.arg.kind = "debounce")
             => /\ Len(out') = 1
                /\ IsCleaned(last'.arg.transcript, out'[1].text)
                /\ userTranscriptProcessors' = userTranscriptProcessors]_vars

\* the final text ",. a" is stored and displayed with its punctuation and
\* reaches the sink as "a"
C22_Witness ==
  /\ EventDone
  /\ last.arg.isFinal
  /\ ProcessorOf(last.sid).finalTranscriptHistory = << <<",", ".", SP, "a">> >>
  /\ ProcessorOf(last.sid).currentDisplayLines[1] = <<",", ".", SP, "a">>
  /\ Len(out) = 1
  /\ out[1].text = <<"a">>

\* ------------------------------------------------------------------------
\* SpecSink: one session whose display sink may throw in any step
\* ------------------------------------------------------------------------
MaxSinkInputs == 3

NextSink ==
  \/ \E sinkFails \in BOOLEAN :
       nInputs < MaxSinkInputs /\ SessionStartsWith("s1", sinkFails)
  \/ \E text \in Texts, isFinal \in BOOLEAN, sinkFails \in BOOLEAN :
       /\ nInputs < MaxSinkInputs
       /\ connected["s1"]
       /\ EventDeliveredWith("s1", "en-US", text, isFinal, sinkFails)
  \/ AdvanceToTimer
  \/ \E t \in timers, sinkFails \in BOOLEAN : FireTimerWith(t, sinkFails)

SpecSink == Init /\ [][NextSink]_vars

\* what a session reads of its processor and language in the state st
StView(st, sid) ==
  LET u == UserOf(sid)
      has == Has(st.procs, u)
      p == IF has THEN st.procs[u] ELSE NewProcessor(0, 0, 0, FALSE)
  IN [hasProcessor |-> has,
      history |-> p.finalTranscriptHistory,
      partialText |-> p.partialText,
      maxCharsPerLine |-> p.maxCharsPerLine,
      maxLines |-> p.maxLines,
      language |-> IF Has(st.langs, u) THEN st.langs[u] ELSE "none"]

\* the state the step just taken would have reached with a working sink
WithWorkingSink(step) ==
  CASE step.kind = "start" ->
         onSession(St, settings[step.sid], step.sid, inst[step.sid] + 1)
    [] step.kind = "event" ->
         RunHandlers(St, step.arg.runs, step.sid, inst[step.sid], step.arg.text,
                     step.arg.isFinal, nInputs + 1)
    [] step.kind = "fire" ->
         IF step.arg.kind = "debounce"
         THEN DebounceCallback([St EXCEPT !.timers = @ \ {step.arg}], step.arg)
         ELSE InactivityCallback([St EXCEPT !.timers = @ \ {step.arg}], step.arg)

\* C23: a step in which showTextWall throws, for a transcription event, a
\* debounce timeout or the display applySettings makes, leaves history,
\* partial text, width, line count and language of the session as the same
\* step with a working sink leaves them.  When the display of applySettings
\* throws inside onSession, the catch block replaces the processor by a
\* default one: this statement is violated.
C23_SinkFailureKeepsState ==
  [][(/\ last'.kind \in {"start", "event", "fire"}
      /\ \E k \in 1..Len(out') : out'[k].failed /\ out'[k].via # "inactivity")
       => SessionView(last'.sid)' = StView(WithWorkingSink(last'), last'.sid)]_vars

\* ------------------------------------------------------------------------
\* Wrapping (SpecTP)
\* ------------------------------------------------------------------------
\* C24: every call of processString returns: wrapText ends for every text
\* and every width above 0, in whitespace mode and in logographic mode.  In
\* logographic mode findChineseWordBoundary returns 0 when the first word of
\* the segmentation is longer than the width; the loop then removes nothing
\* and never ends: this statement is violated.
C24_WrapTextTerminates == tpCall.ok

\* ------------------------------------------------------------------------
\* SpecWrap: one whitespace-mode processor of width 4 or 10 and texts of
\* several words
\* ------------------------------------------------------------------------
WrapWidths == {4, 10}

HelloWorldFoo ==
  <<"h", "e", "l", "l", "o", SP, "w", "o", "r", "l", "d", SP, "f", "o", "o">>

WrapTexts ==
  {HelloWorldFoo,
   <<"a", "b", SP, "c", "d">>,
   <<"a", SP, SP, "b", "c", "d", "e", "f">>,
   <<>>}

InitWrap ==
  /\ tp \in {NewProcessor(w, l, c, FALSE) :
               w \in WrapWidths, l \in 1..MaxLinesTP, c \in 1..MaxCap}
  /\ tpCall = NoCall
  /\ tpAppended = <<>>
  /\ sessions = EmptyMap
  /\ InitApp

NextWrap ==
  \/ \E text \in WrapTexts, isFinal \in BOOLEAN : TPProcessString(text, isFinal)
  \/ TPClear

SpecWrap == InitWrap /\ [][NextWrap]_vars

\* the text the last call of processString handed to wrapText
CombinedText ==
  IF tpCall.isFinal THEN getCombinedTranscriptHistory(tp)
  ELSE getCombinedTranscriptHistory(tp) \o <<SP>> \o tp.partialText

\* the 0-based indices in 1..width at which text has a space
SpacesWithin(text, width) == {i \in 1..width : text[i + 1] = SP}

Max(S) == CHOOSE x \in S : \A y \in S : y <= x

\* lines are the lines of text: wherever the remaining text is longer than
\* the width and has a space at an index in 1..width, the next line is the
\* prefix that ends at the last such space, trimmed
RECURSIVE BreaksAtLastSpace(_, _, _)
BreaksAtLastSpace(text, lines, width) ==
  IF Len(text) <= width THEN TRUE
  ELSE LET spaces == SpacesWithin(text, width)
           cut == IF spaces = {} THEN width ELSE Max(spaces)
       IN /\ lines # <<>>
          /\ spaces # {} => Head(lines) = Trim(SubstringTo(text, cut))
          /\ BreaksAtLastSpace(Trim(SubstringFrom(text, cut)), Tail(lines), width)

\* C25: in whitespace mode, whenever the text that remains to be wrapped is
\* longer than the width and has a space at an index in 1..maxCharsPerLine,
\* the next line is the longest prefix of at most maxCharsPerLine characters
\* that ends at a space (without the whitespace around it).
C25_BreakAtLastSpaceWithinWidth ==
  (TPReturned /\ ~tp.isChinese) =>
    BreaksAtLastSpace(CombinedText, tpCall.wrapped, tp.maxCharsPerLine)

\* width 10, 2 lines, empty history, partial "hello world foo": the display
\* is "hello", "world foo"
C25_Witness ==
  /\ TPReturned
  /\ ~tpCall.isFinal
  /\ tp.maxCharsPerLine = 10
  /\ tp.maxLines = 2
  /\ tp.finalTranscriptHistory = <<>>
  /\ tp.partialText = HelloWorldFoo
  /\ tp.currentDisplayLines =
       << <<"h", "e", "l", "l", "o">>, <<"w", "o", "r", "l", "d", SP, "f", "o", "o">> >>

\* ------------------------------------------------------------------------
\* Tokens, whitespace and word edges (SpecTP)
\* ------------------------------------------------------------------------
\* a text of one or more characters without a space
IsToken(text) == text # <<>> /\ text # Null /\ \A i \in 1..Len(text) : text[i] \notin WhiteSpace

\* the display of one line of text followed by empty lines
OneLineDisplay(text, maxLines) == [k \in 1..maxLines |-> IF k = 1 THEN text ELSE <<>>]

\* the last call found the history empty and was given a single token
TokenOnEmptyHistory ==
  /\ TPReturned
  /\ IsToken(tpCall.text)
  /\ IF tpCall.isFinal THEN tpAppended = <<tpCall.text>>
     ELSE tp.finalTranscriptHistory = <<>>

\* C26: after a partial or final call whose text is a single token without
\* spaces of at most maxCharsPerLine characters, on an empty history, the
\* display is the token on the first line and empty lines after it.  On the
\* partial path the token is wrapped behind a leading space, so a token of
\* exactly maxCharsPerLine characters is split: this statement is violated.
\* Lines are compared without surrounding whitespace, so that only a split
\* token violates it.
C26_ShortTokenIsNotSplit ==
  (TokenOnEmptyHistory /\ Len(tpCall.text) <= tp.maxCharsPerLine) =>
    [k \in 1..Len(tp.currentDisplayLines) |-> Trim(tp.currentDisplayLines[k])]
      = OneLineDisplay(tpCall.text, tp.maxLines)

\* C27: after every call of processString that returned, partial or final,
\* with or without history, no line of the display begins or ends with
\* whitespace.  wrapText pushes a text that fits the width untrimmed, and the
\* partial path joins history and text with a space even when one of them is
\* empty: this statement is violated.
C27_DisplayLinesAreTrimmed ==
  TPReturned =>
    \A k \in 1..Len(tp.currentDisplayLines) :
      LET line == tp.currentDisplayLines[k]
      IN line # <<>> => (line[1] \notin WhiteSpace /\ line[Len(line)] \notin WhiteSpace)

\* the 0-based indices between two words of the segmentation of text
RECURSIVE PartialSums(_, _)
PartialSums(words, sum) ==
  IF words = <<>> THEN {}
  ELSE {sum + Head(words)} \cup PartialSums(Tail(words), sum + Head(words))
WordEdges(text) == PartialSums(JiebaCut(text), 0) \ {Len(text)}

\* every break wrapText makes in text falls between two words
RECURSIVE BreaksAtWordEdges(_, _)
BreaksAtWordEdges(text, width) ==
  IF Len(text) <= width THEN TRUE
  ELSE LET cut == SplitIndex(text, width, TRUE)
       IN /\ cut \in WordEdges(text)
          /\ BreaksAtWordEdges(Trim(SubstringFrom(text, cut)), width)

\* C28: after every call of processString of a processor in logographic mode
\* that returned, every break wrapText made lies between two words of the
\* segmentation of the text that remained, for texts with and without
\* Chinese characters.  For a text without a Chinese character
\* findChineseWordBoundary returns the width itself, wherever that falls:
\* this statement is violated.
C28_HanziBreaksAtWordEdges ==
  (TPReturned /\ tp.isChinese) => BreaksAtWordEdges(CombinedText, tp.maxCharsPerLine)

\* C29: after every call of processString that returned, partial or final,
\* the display is the wrapped lines followed by empty lines when there are
\* at most maxLines of them, and the last maxLines wrapped lines in order
\* when there are more.
C29_PadOrEvictFromFront ==
  TPReturned =>
    LET w == tpCall.wrapped
        d == tp.currentDisplayLines
    IN IF Len(w) <= tp.maxLines
       THEN d = [k \in 1..tp.maxLines |-> IF k <= Len(w) THEN w[k] ELSE <<>>]
       ELSE d = LastN(w, tp.maxLines)

\* a partial call whose text wrapped into more lines than maxLines: the
\* first wrapped line is gone, the last one is shown last
C29_Witness ==
  /\ TPReturned
  /\ ~tpCall.isFinal
  /\ Len(tpCall.wrapped) > tp.maxLines
  /\ tp.maxLines = 2
  /\ tp.currentDisplayLines[1] = tpCall.wrapped[Len(tpCall.wrapped) - 1]
  /\ tp.currentDisplayLines[2] = tpCall.wrapped[Len(tpCall.wrapped)]
  /\ tpCall.wrapped[1] # tp.currentDisplayLines[1]

\* ------------------------------------------------------------------------
\* The trailing timer (Spec)
\* ------------------------------------------------------------------------
\* C30: every pending trailing timer of a session's debouncer is due no
\* later than one interval (debounceDelay) after the session's last
\* emission, as a timer scheduled for interval - elapsed would be.  The
\* timeout is set for the whole debounceDelay from the arrival of the
\* update, so it is due at arrival + debounceDelay: this statement is
\* violated.
C30_TrailingTimerWithinInterval ==
  \A sid \in Sessions :
    \A t \in DebounceTimers(sid) :
      t.at <= sessionDebouncers[sid].lastSentTime + debounceDelay

\* ------------------------------------------------------------------------
\* SpecPF: partial and final events of one processor of width 2 or 3, in
\* both modes, with null, blank and padded texts
\* ------------------------------------------------------------------------
PFWidths == {2, 3}

PFLines == {1, 2}

PFTexts ==
  {Null, <<SP>>,
   <<SP, "a", "b", SP>>,
   <<"X", "Y", "X">>}

InitPF ==
  /\ tp \in {NewProcessor(w, l, c, ch) :
               w \in PFWidths, l \in PFLines, c \in 1..MaxCap, ch \in BOOLEAN}
  /\ tpCall = NoCall
  /\ tpAppended = <<>>
  /\ sessions = EmptyMap
  /\ InitApp

NextPF ==
  \/ \E text \in PFTexts, isFinal \in BOOLEAN : TPProcessString(text, isFinal)
  \/ TPClear

SpecPF == InitPF /\ [][NextPF]_vars

\* C31: in every state, a partial call with any text stores the trimmed text
\* as partialText, leaves the history as it was, and (when it returns) shows
\* the wrap of the combined history, a space and the new partial, padded or
\* evicted to maxLines; the result is the same whatever partialText held
\* before the call.
C31_PartialReplacesPartial ==
  TPRunning =>
    \A text \in PFTexts :
      LET r == processString(tp, text, FALSE)
          combined == Join(tp.finalTranscriptHistory, <<SP>>) \o <<SP>> \o TrimmedText(text)
          w == wrapText(combined, tp.maxCharsPerLine, tp.isChinese)
      IN /\ r.proc.partialText = TrimmedText(text)
         /\ r.proc.finalTranscriptHistory = tp.finalTranscriptHistory
         /\ r.ok = w.ok
         /\ r.ok => r.proc.currentDisplayLines = EnsureMaxLines(w.lines, tp.maxLines)
         /\ \A earlier \in PFTexts \ {Null} :
              processString([tp EXCEPT !.partialText = earlier], text, FALSE) = r

\* a partial call made while an earlier partial and a history were held,
\* with a text different from the earlier partial
C31_Witness ==
  /\ TPReturned
  /\ ~tpCall.isFinal
  /\ tp.partialText = <<"a", "b">>
  /\ tp.finalTranscriptHistory = << <<"X", "Y", "X">> >>
  /\ tp.maxCharsPerLine = 3
  /\ tp.maxLines = 2
  /\ tp.currentDisplayLines = << <<"X", "Y", "X">>, <<"a", "b">> >>

\* C32: in every state every history entry is a non-blank text, and a final
\* call with any text leaves partialText empty, leaves the history as it was
\* when the text is blank or only whitespace, and (when it returns) shows the
\* wrap of the combined history alone, padded or evicted to maxLines.
C32_FinalClearsPartial ==
  /\ \A i \in 1..Len(tp.finalTranscriptHistory) : Trim(tp.finalTranscriptHistory[i]) # <<>>
  /\ TPRunning =>
       \A text \in PFTexts :
         LET r == processString(tp, text, TRUE)
             w == wrapText(Join(r.proc.finalTranscriptHistory, <<SP>>),
                           tp.maxCharsPerLine, tp.isChinese)
         IN /\ r.proc.partialText = <<>>
            /\ TrimmedText(text) = <<>> =>
                 r.proc.finalTranscriptHistory = tp.finalTranscriptHistory
            /\ r.ok = w.ok
            /\ r.ok => r.proc.currentDisplayLines = EnsureMaxLines(w.lines, tp.maxLines)

\* a final call with a whitespace-only text on a processor that holds a
\* history: nothing was appended and the display is the history
C32_Witness ==
  /\ TPReturned
  /\ tpCall.isFinal
  /\ tpCall.text = <<SP>>
  /\ tp.partialText = <<>>
  /\ tp.finalTranscriptHistory = << <<"a", "b">> >>
  /\ tpAppended = << <<"a", "b">> >>
  /\ tp.currentDisplayLines[1] = <<"a", "b">>

\* ------------------------------------------------------------------------
\* Settings changes and the debounce timeout (Spec)
\* ------------------------------------------------------------------------
\* C33: the step that follows a settings change of a session is never the
\* debounce timeout of that session emitting a non-final update, which was
\* received, and laid out, before the change.  applySettings emits its
\* display without going through the debouncer and clears no timeout: this
\* statement is violated.
C33_NoStaleUpdateAfterSettingsDisplay ==
  [][(/\ last.kind = "change"
      /\ last'.kind = "fire"
      /\ last'.arg.kind = "debounce"
      /\ last'.sid = last.sid) => out' = <<>>]_vars

\* C34: a connected session has exactly one transcription handler
\* subscribed, over all locales, and a final transcription event is handled
\* once: one display is emitted for it.  Every run of applySettings
\* subscribes one more handler and none is ever unsubscribed: this
\* statement is violated.
C34_OneHandlerPerSession ==
  /\ \A sid \in Sessions :
       connected[sid] => handlers[sid]["en-US"] + handlers[sid]["zh-CN"] = 1
  /\ (EventDone /\ last.arg.isFinal) => Len(out) = 1

\* ------------------------------------------------------------------------
\* Punctuation at the start of a display (SpecClean)
\* ------------------------------------------------------------------------
\* C35: no display handed to showTextWall, for a partial or a final update
\* and with or without history, begins with one of the punctuation marks
\* cleanTranscriptText strips.  The marks are stripped only where the joined
\* string begins with them, before the whitespace is trimmed; the partial
\* display of an empty history begins with a space: this statement is
\* violated.
C35_NoDisplayBeginsWithPunctuation ==
  \A k \in 1..Len(out) : out[k].text # <<>> => out[k].text[1] \notin Punct

\* ------------------------------------------------------------------------
\* SpecLive: one session id, started only while it is not running, with
\* non-final and final events 0 or 200 ms apart, where a timeout that is due
\* runs and the clock reaches the next timeout
\* ------------------------------------------------------------------------
MaxLiveInputs == 4

NextLive ==
  \/ nInputs < MaxLiveInputs /\ ~connected["s1"] /\ SessionStarts("s1")
  \/ nInputs < MaxLiveInputs /\ SessionStops("s1")
  \/ \E text \in Texts, isFinal \in BOOLEAN :
       /\ isFinal => text = ShortText
       /\ nInputs < MaxLiveInputs
       /\ connected["s1"]
       /\ EventDelivered("s1", "en-US", text, isFinal)
  \/ \E dt \in TimeStep : Advance(dt)
  \/ AdvanceToTimer
  \/ \E t \in timers : FireTimer(t)

\* the event loop runs every timeout that is due, and time does not stop
\* before the next timeout
SpecLive ==
  /\ Init
  /\ [][NextLive]_vars
  /\ WF_vars(AdvanceToTimer)
  /\ WF_vars(\E t \in timers : FireTimer(t))

\* the debounce timeout the session holds emitted the update that waited
PendingEmitted ==
  /\ Len(out) = 1
  /\ out[1].sid = last.sid
  /\ out[1].via = "timer"
  /\ out[1].text = cleanTranscriptText(Last(last.pre.pend))
  /\ mon[last.sid].pend = <<>>

\* C36: whenever a non-final update of the session waits on the debounce
\* timeout, eventually none waits: the timeout the session holds runs and
\* emits the most recent waiting update, unless a later transcription event
\* is emitted in its place or the session stops or starts again first; and
\* a non-final update that arrives debounceDelay or more after the
\* session's last emission is emitted on arrival, so a stream of non-final
\* updates less than debounceDelay apart cannot postpone emission forever.
C36_PendingUpdateEventuallyEmitted ==
  /\ (mon["s1"].pend # <<>>) ~> (mon["s1"].pend = <<>>)
  /\ [](DebounceFired => PendingEmitted)
  /\ [](( /\ EventDone /\ ~last.arg.isFinal /\ last.pre.hasDebouncer
          /\ now - last.pre.lastSentTime >= debounceDelay)
        => /\ out # <<>>
           /\ Last(out).text = cleanTranscriptText(CurrentDisplay(last.sid))
           /\ mon[last.sid].pend = <<>>)

\* a stream of three non-final updates 200 ms apart: the first is emitted
\* on arrival, the second waits, the third arrives debounceDelay after the
\* first and is emitted on arrival
C36_Witness ==
  /\ EventDone /\ ~last.arg.isFinal
  /\ now = StartTime + debounceDelay
  /\ last.pre.lastSentTime = StartTime
  /\ last.pre.pend # <<>>
  /\ out # <<>>
  /\ mon["s1"].pend = <<>>

\* ------------------------------------------------------------------------
\* The inactivity clear and the debounce timeout (SpecRestart)
\* ------------------------------------------------------------------------
\* C37: when an inactivity timeout of a session has run and emitted the
\* blank display, no debounce timeout of that session is scheduled, so no
\* older caption is emitted after the blank display before the next event.
\* A second onSession for the id leaves the inactivity timeout of the first
\* scheduled; it runs while an update of the second waits on its debounce
\* timeout: this statement is violated.
C37_NoDebounceAfterInactivityClear ==
  (last.kind = "fire" /\ last.arg.kind = "inactivity" /\ out # <<>>)
    => PendingDebounce(last.sid) = {}

\* ------------------------------------------------------------------------
\* HandymanVoiceAssistant (index.ts, second half): the voice-guided
\* assembly assistant
\* ------------------------------------------------------------------------
\* String.prototype.includes for a non-empty word
Includes(command, word) ==
  \E i \in 1..(Len(command) - Len(word) + 1) : SubSeq(command, i, i + Len(word) - 1) = word

IncludesAny(command, words) == \E w \in words : Includes(command, w)

\* the words that leave the welcome screen
WelcomeWords ==
  {<<"c", "o", "n", "t", "i", "n", "u", "e">>,
   <<"s", "t", "a", "r", "t">>,
   <<"b", "e", "g", "i", "n">>,
   <<"n", "e", "x", "t">>,
   <<"g", "o">>,
   <<"y", "e", "s">>}

\* the words that select the bookshelf
BookshelfWords ==
  {<<"b", "o", "o", "k">>,
   <<"s", "h", "e", "l", "f">>,
   <<"c", "a", "s", "e">>,
   <<"1">>,
   <<"o", "n", "e">>,
   <<"f", "i", "r", "s", "t">>}

\* the words that select the LEGO figure
LegoWords ==
  {<<"l", "e", "g", "o">>,
   <<"l", "u", "k", "e">>,
   <<"s", "t", "a", "r">>,
   <<"2">>,
   <<"t", "w", "o">>,
   <<"s", "e", "c", "o", "n", "d">>}

\* the words for the next step
NextWords ==
  {<<"n", "e", "x", "t">>,
   <<"c", "o", "n", "t", "i", "n", "u", "e">>,
   <<"f", "o", "r", "w", "a", "r", "d">>,
   <<"a", "d", "v", "a", "n", "c", "e">>,
   <<"g", "o", SP, "o", "n">>,
   <<"p", "r", "o", "c", "e", "e", "d">>}

\* the words for the previous step
PreviousWords ==
  {<<"b", "a", "c", "k">>,
   <<"p", "r", "e", "v", "i", "o", "u", "s">>,
   <<"l", "a", "s", "t">>,
   <<"u", "n", "d", "o">>,
   <<"r", "e", "v", "e", "r", "s", "e">>}

\* the words that repeat the current step
RepeatWords ==
  {<<"r", "e", "p", "e", "a", "t">>,
   <<"a", "g", "a", "i", "n">>,
   <<"w", "h", "a", "t">>,
   <<"s", "a", "y", SP, "t", "h", "a", "t">>,
   <<"r", "e", "a", "d">>}

\* the words that restart the project
RestartWords ==
  {<<"s", "t", "a", "r", "t", SP, "o", "v", "e", "r">>,
   <<"r", "e", "s", "t", "a", "r", "t">>,
   <<"b", "e", "g", "i", "n", "n", "i", "n", "g">>,
   <<"r", "e", "s", "e", "t">>,
   <<"f", "i", "r", "s", "t", SP, "s", "t", "e", "p">>}

\* the words that start a new project
NewProjectWords ==
  {<<"n", "e", "w">>,
   <<"a", "n", "o", "t", "h", "e", "r">>,
   <<"d", "i", "f", "f", "e", "r", "e", "n", "t">>,
   <<"n", "e", "x", "t">>,
   <<"c", "o", "n", "t", "i", "n", "u", "e">>,
   <<"s", "t", "a", "r", "t">>}

\* PROJECTS: totalSteps, and the length of the steps array
PROJECTS ==
  [bookshelf |-> [id |-> "bookshelf", totalSteps |-> 6, steps |-> 6],
   lego |-> [id |-> "lego", totalSteps |-> 8, steps |-> 8]]

\* currentProject of a session that has none (undefined)
NoProject == "none"

\* the value onSession stores for a session id; screen is the last text
\* wall shown on the session
NewSession ==
  [state |-> "welcome", currentProject |-> NoProject, currentStep |-> 0,
   screen |-> [kind |-> "welcome", project |-> NoProject, id |-> 0]]

\* showProjectSelection
showProjectSelection(s) ==
  [s EXCEPT !.screen = [kind |-> "selection", project |-> NoProject, id |-> 0]]

\* showInstructionStep: project.steps[stepIndex] is read, an index outside
\* the array makes the read of step.id throw
showInstructionStep(s, project, stepIndex) ==
  IF stepIndex \in 0..(PROJECTS[project].steps - 1)
  THEN [s EXCEPT !.screen = [kind |-> "step", project |-> project, id |-> stepIndex + 1]]
  ELSE [s EXCEPT !.screen = [kind |-> "error", project |-> project, id |-> stepIndex + 1]]

\* showCompletionScreen
showCompletionScreen(s, project) ==
  [s EXCEPT !.screen = [kind |-> "complete", project |-> project, id |-> 0]]

\* a variant that increments on the last step as well
handleNextStep_AlwaysIncrement(s) ==
  IF s.currentProject = NoProject THEN s
  ELSE showInstructionStep([s EXCEPT !.currentStep = @ + 1],
                           s.currentProject, s.currentStep + 1)

handleNextStep(s) ==
  IF s.currentProject = NoProject THEN s
  ELSE IF s.currentStep < PROJECTS[s.currentProject].totalSteps - 1
  THEN showInstructionStep([s EXCEPT !.currentStep = @ + 1],
                           s.currentProject, s.currentStep + 1)
  ELSE showCompletionScreen([s EXCEPT !.state = "completed"], s.currentProject)

handlePreviousStep(s) ==
  IF s.currentProject = NoProject \/ s.currentStep <= 0 THEN s
  ELSE showInstructionStep([s EXCEPT !.currentStep = @ - 1],
                           s.currentProject, s.currentStep - 1)

handleNewProject(s) ==
  showProjectSelection([s EXCEPT !.state = "selecting", !.currentStep = 0,
                                 !.currentProject = NoProject])

handleProjectSelection(s, projectId) ==
  IF s.state # "selecting" THEN s
  ELSE showInstructionStep([s EXCEPT !.state = "building", !.currentProject = projectId,
                                     !.currentStep = 0],
                           projectId, 0)

\* processVoiceCommand on the state of one session; the first branch that
\* matches returns
processVoiceCommand(s, command) ==
  IF s.state = "welcome" /\ IncludesAny(command, WelcomeWords)
  THEN showProjectSelection([s EXCEPT !.state = "selecting"])
  ELSE IF s.state = "selecting" /\ IncludesAny(command, BookshelfWords)
  THEN handleProjectSelection(s, "bookshelf")
  ELSE IF s.state = "selecting" /\ IncludesAny(command, LegoWords)
  THEN handleProjectSelection(s, "lego")
  ELSE IF s.state = "building" /\ s.currentProject # NoProject
          /\ IncludesAny(command, NextWords)
  THEN handleNextStep(s)
  ELSE IF s.state = "building" /\ s.currentProject # NoProject
          /\ IncludesAny(command, PreviousWords)
  THEN handlePreviousStep(s)
  ELSE IF s.state = "building" /\ s.currentProject # NoProject
          /\ IncludesAny(command, RepeatWords)
  THEN showInstructionStep(s, s.currentProject, s.currentStep)
  ELSE IF s.state = "building" /\ s.currentProject # NoProject
          /\ IncludesAny(command, RestartWords)
  THEN showInstructionStep([s EXCEPT !.currentStep = 0], s.currentProject, 0)
  ELSE IF s.state = "completed" /\ IncludesAny(command, NewProjectWords)
  THEN handleNewProject(s)
  ELSE s

\* handleVoiceTranscription on the map of sessions: only a final
\* transcription with a non-empty lower-cased, trimmed text is a command
handleVoiceTranscription(m, sid, text, isFinal) ==
  IF ~Has(m, sid) \/ ~isFinal \/ text = Null THEN m
  ELSE LET command == Trim(ToLowerCase(text))
       IN IF command = <<>> THEN m
          ELSE [m EXCEPT ![sid] = processVoiceCommand(m[sid], command)]

\* the texts of the transcription events: commands as they are spoken, a
\* text that is no command, the empty text and no text
VoiceTexts ==
  {Null,
   <<"n", "e", "x", "t">>,
   <<"N", "e", "x", "t", SP, "s", "t", "e", "p">>,
   <<SP, "b", "a", "c", "k", SP>>,
   <<"g", "o", SP, "b", "a", "c", "k">>,
   <<"r", "e", "p", "e", "a", "t">>,
   <<"s", "t", "a", "r", "t", SP, "o", "v", "e", "r">>,
   <<"b", "o", "o", "k", "s", "h", "e", "l", "f">>,
   <<"l", "e", "g", "o">>,
   <<"c", "o", "n", "t", "i", "n", "u", "e">>,
   <<"n", "e", "w", SP, "p", "r", "o", "j", "e", "c", "t">>,
   <<"h", "e", "l", "l", "o">>,
   <<>>}

\* the session ids of the assistant
VoiceSessions == {"s1", "s2"}

InitVoice ==
  /\ InitApp
  /\ tp = NewProcessor(DefaultMaxCharsPerLine, DefaultMaxLines, MAX_FINAL_TRANSCRIPTS, FALSE)
  /\ tpCall = NoCall
  /\ tpAppended = <<>>
  /\ sessions = EmptyMap

\* onSession for a session id that is not running
VoiceSessionStarts(sid) ==
  /\ ~Has(sessions, sid)
  /\ sessions' = MapSet(sessions, sid, NewSession)
  /\ UNCHANGED <<tp, tpCall, tpAppended, appVars>>

\* onStop: the state is deleted and the transcription handler unsubscribed
VoiceSessionStops(sid) ==
  /\ Has(sessions, sid)
  /\ sessions' = MapDelete(sessions, sid)
  /\ UNCHANGED <<tp, tpCall, tpAppended, appVars>>

\* a transcription event reaches the handler the session subscribed
VoiceTranscription(sid, text, isFinal) ==
  /\ Has(sessions, sid)
  /\ sessions' = handleVoiceTranscription(sessions, sid, text, isFinal)
  /\ UNCHANGED <<tp, tpCall, tpAppended, appVars>>

NextVoice ==
  \/ \E sid \in VoiceSessions : VoiceSessionStarts(sid)
  \/ \E sid \in VoiceSessions : VoiceSessionStops(sid)
  \/ \E sid \in VoiceSessions, text \in VoiceTexts, isFinal \in BOOLEAN :
       VoiceTranscription(sid, text, isFinal)

SpecVoice == InitVoice /\ [][NextVoice]_vars

LastStep(s) == PROJECTS[s.currentProject].totalSteps - 1

\* C38: in every state, a session in state building has a current project
\* and a currentStep from 0 to totalSteps - 1 and shows a step of that
\* project; 'next' on the last step makes the session completed and leaves
\* currentStep as it is, 'next' before the last step adds one, and 'back' on
\* step 0 changes nothing.
C38_BuildingStepInRange ==
  \A sid \in DOMAIN sessions :
    LET s == sessions[sid]
    IN /\ s.screen.kind # "error"
       /\ s.state = "building" =>
            /\ s.currentProject \in DOMAIN PROJECTS
            /\ s.currentStep \in 0..LastStep(s)
            /\ LET next == processVoiceCommand(s, <<"n", "e", "x", "t">>)
                   back == processVoiceCommand(s, <<"b", "a", "c", "k">>)
               IN /\ s.currentStep = LastStep(s) =>
                       /\ next.state = "completed"
                       /\ next.currentStep = s.currentStep
                       /\ next.currentProject = s.currentProject
                  /\ s.currentStep < LastStep(s) =>
                       /\ next.state = "building"
                       /\ next.currentStep = s.currentStep + 1
                  /\ s.currentStep = 0 => back = s
                  /\ s.currentStep > 0 => back.currentStep = s.currentStep - 1

\* 'next' was said on the last step of the LEGO project: the session is
\* completed on step 7 of 0..7
C38_Witness ==
  /\ Has(sessions, "s1")
  /\ sessions["s1"].state = "completed"
  /\ sessions["s1"].currentProject = "lego"
  /\ sessions["s1"].currentStep = 7
  /\ sessions["s1"].screen.kind = "complete"

====
